---- MODULE Spec2Model ----
(***************************************************************************)
(* COVID-19 dashboard (pds-main): ingestion of the disease.sh timeline,    *)
(* the seeded fallback generators, the current-totals snapshot and the     *)
(* page routing of the Streamlit application.                              *)
(*                                                                         *)
(* Conventions                                                             *)
(*  - a pandas DataFrame is a sequence of row records;                     *)
(*  - a JSON value is a record with a "kind" field;                        *)
(*  - a date string is a sequence of one-character strings, so that        *)
(*    datetime.strptime is modelled by what it parses;                     *)
(*  - real numbers are fixed-point integers (thousandths).                 *)
(***************************************************************************)
EXTENDS Integers, Sequences, FiniteSets, TLC

VARIABLES
    netHist,      \* what a request to the historical endpoint meets
    netStats,     \* what a request to the country endpoint meets
    rng,          \* state of numpy's global RandomState: [seed, pos]
    sortKind,     \* how the build's sort orders rows with equal keys
    histData,     \* value returned by fetch_indonesia_historical
    histRows,     \* local `rows` of get_historical_df before sorting
    hist,         \* outcome of the last get_historical_df call
    sampleSeen,   \* the series direct calls of the sample generator returned
    statsData,    \* value returned by fetch_indonesia_current
    stats,        \* outcome of the last get_current_stats call
    prov,         \* outcome of the last generate_province_simulation call
    provSeen,     \* the (total_cases, table) pairs direct calls returned
    otherDraws,   \* draws made from the global generator by other code
    genCalls,     \* direct calls of the two generators so far
    url,          \* the "state" query parameter of the session's URL
    session,      \* st.session_state
    cacheHist,    \* st.cache_data entry of _load_historical_cached
    cacheStats,   \* st.cache_data entry of _load_current_cached
    cacheProv,    \* st.cache_data entry of _load_province_cached
    rendered,     \* what the last script run put on the page
    navTrace,     \* session state at the stages of the last script run
    dfHeld,       \* the series a page holds and hands to the metrics module
    dfLoaded,     \* that series as it was when it was loaded
    lastCall,     \* the last call of a metrics operation and its outcome
    firstCall,    \* an earlier call of a metrics operation, kept to compare
    between       \* metrics calls made since firstCall was kept

apiVars == <<histData, histRows, hist, statsData, stats, prov>>
genVars == <<sampleSeen, provSeen, otherDraws, genCalls>>
appVars == <<url, session, cacheHist, cacheStats, cacheProv, rendered,
            navTrace>>

metVars == <<dfHeld, dfLoaded, lastCall, firstCall, between>>

netVars == <<netHist, netStats>>

vars == <<netHist, netStats, rng, sortKind, histData, histRows, hist, sampleSeen,
          statsData, stats, prov, provSeen, otherDraws, genCalls,
          url, session, cacheHist, cacheStats, cacheProv, rendered, navTrace,
          dfHeld, dfLoaded, lastCall, firstCall, between>>

(***************************************************************************)
(* Bounds of the model                                                     *)
(***************************************************************************)
MaxRows == 2          \* most date keys in one timeline
MaxCount == 2         \* largest cumulative count in a timeline
MaxOtherDraws == 2    \* most unrelated draws from the global generator
MaxCalls == 2         \* most direct calls of each fallback generator

Counts == 0..MaxCount

Max(a, b) == IF a >= b THEN a ELSE b
Min(a, b) == IF a <= b THEN a ELSE b

(***************************************************************************)
(* datetime.strptime(date_str, "%m/%d/%y")                                 *)
(***************************************************************************)
Digits == {"0", "1", "2", "3", "4", "5", "6", "7", "8", "9"}

DigitVal(c) ==
    CASE c = "0" -> 0 [] c = "1" -> 1 [] c = "2" -> 2 [] c = "3" -> 3
      [] c = "4" -> 4 [] c = "5" -> 5 [] c = "6" -> 6 [] c = "7" -> 7
      [] c = "8" -> 8 [] c = "9" -> 9 [] OTHER -> 0

\* value of a one- or two-character field (a leading blank counts as nothing)
FieldVal(t) ==
    IF Len(t) = 1 THEN DigitVal(t[1])
    ELSE DigitVal(t[1]) * 10 + DigitVal(t[2])

\* %m : 1[0-2] | 0[1-9] | [1-9]
MatchMonth(t) ==
    \/ Len(t) = 2 /\ t[1] = "1" /\ t[2] \in {"0", "1", "2"}
    \/ Len(t) = 2 /\ t[1] = "0" /\ t[2] \in Digits \ {"0"}
    \/ Len(t) = 1 /\ t[1] \in Digits \ {"0"}

\* %d : 3[0-1] | [1-2]\d | 0[1-9] | [1-9] | " "[1-9]
MatchDay(t) ==
    \/ Len(t) = 2 /\ t[1] = "3" /\ t[2] \in {"0", "1"}
    \/ Len(t) = 2 /\ t[1] \in {"1", "2"} /\ t[2] \in Digits
    \/ Len(t) = 2 /\ t[1] \in {"0", " "} /\ t[2] \in Digits \ {"0"}
    \/ Len(t) = 1 /\ t[1] \in Digits \ {"0"}

\* %y : \d\d
MatchYear(t) == Len(t) = 2 /\ t[1] \in Digits /\ t[2] \in Digits

IsLeap(y) == y % 4 = 0 /\ (y % 100 # 0 \/ y % 400 = 0)

DaysInMonth(y, m) ==
    IF m = 2 THEN (IF IsLeap(y) THEN 29 ELSE 28)
    ELSE IF m \in {4, 6, 9, 11} THEN 30 ELSE 31

NoDate == [ok |-> FALSE, y |-> 0, m |-> 0, d |-> 0]

strptime(s) ==
    LET slashes == {i \in 1..Len(s) : s[i] = "/"}
    IN  IF Cardinality(slashes) # 2 THEN NoDate
        ELSE LET i1 == CHOOSE i \in slashes : \A j \in slashes : i <= j
                 i2 == CHOOSE i \in slashes : \A j \in slashes : i >= j
                 mm == SubSeq(s, 1, i1 - 1)
                 dd == SubSeq(s, i1 + 1, i2 - 1)
                 yy == SubSeq(s, i2 + 1, Len(s))
             IN  IF ~(MatchMonth(mm) /\ MatchDay(dd) /\ MatchYear(yy))
                 THEN NoDate
                 ELSE LET y2 == FieldVal(yy)
                          y == IF y2 < 69 THEN 2000 + y2 ELSE 1900 + y2
                          m == FieldVal(mm)
                          d == FieldVal(dd)
                      IN  IF d > DaysInMonth(y, m) THEN NoDate
                          ELSE [ok |-> TRUE, y |-> y, m |-> m, d |-> d]

\* order of two parsed dates (datetime comparison)
DateLess(a, b) ==
    \/ a.y < b.y
    \/ a.y = b.y /\ a.m < b.m
    \/ a.y = b.y /\ a.m = b.m /\ a.d < b.d

DateLeq(a, b) == a = b \/ DateLess(a, b)

(***************************************************************************)
(* Date keys an upstream timeline may carry                                *)
(***************************************************************************)
K_1_22_20 == <<"1", "/", "2", "2", "/", "2", "0">>
K_01_22_20 == <<"0", "1", "/", "2", "2", "/", "2", "0">>
K_1_23_20 == <<"1", "/", "2", "3", "/", "2", "0">>
K_2_30_20 == <<"2", "/", "3", "0", "/", "2", "0">>
K_ISO == <<"2", "0", "2", "0", "-", "0", "1", "-", "2", "2">>

DateKeys == {K_1_22_20, K_01_22_20, K_1_23_20, K_2_30_20, K_ISO}

(***************************************************************************)
(* JSON values returned by the disease.sh endpoints                        *)
(***************************************************************************)
NonNumeric == -1      \* a count position holding a JSON string such as "n/a"

IsNumber(v) == v # NonNumeric

\* one entry of the timeline ("cases", "deaths", "recovered")
AbsentSec == [kind |-> "absent", keys |-> <<>>, vals |-> <<>>]
NotMapSec == [kind |-> "notmap", keys |-> <<>>, vals |-> <<>>]
MapSec(ks, vs) == [kind |-> "map", keys |-> ks, vals |-> vs]

KeySeqs ==
    UNION {{ks \in [1..n -> DateKeys] :
                \A i, j \in 1..n : i # j => ks[i] # ks[j]} : n \in 0..MaxRows}

CaseSections ==
    {AbsentSec, NotMapSec}
    \cup UNION {{MapSec(ks, vs) : vs \in [1..Len(ks) -> Counts]} : ks \in KeySeqs}

\* deaths run against the cases (a rise in one is a revision downward in the
\* other); MirrorTail lacks the first date
Mirror(c) == MapSec(c.keys, [i \in 1..Len(c.keys) |-> MaxCount - c.vals[i]])
MirrorTail(c) ==
    IF Len(c.keys) = 0 THEN MapSec(<<>>, <<>>)
    ELSE MapSec(Tail(c.keys), Tail(Mirror(c).vals))
TextOf(c) == MapSec(c.keys, [i \in 1..Len(c.keys) |-> NonNumeric])

Copy(c) == MapSec(c.keys, c.vals)

\* the "deaths" and "recovered" entries that may accompany the cases c; an
\* entry that is not a mapping comes with one choice of counts per key list
SectionPairs(c) ==
    {<<AbsentSec, AbsentSec>>, <<Mirror(c), Copy(c)>>,
     <<MirrorTail(c), Copy(c)>>, <<Mirror(c), TextOf(c)>>}
    \cup (IF \A i \in 1..Len(c.vals) : c.vals[i] = 0
          THEN {<<NotMapSec, Copy(c)>>, <<Mirror(c), NotMapSec>>}
          ELSE {})

AbsentTimeline ==
    [kind |-> "absent", cases |-> AbsentSec, deaths |-> AbsentSec,
     recovered |-> AbsentSec]
NotMapTimeline ==
    [kind |-> "notmap", cases |-> AbsentSec, deaths |-> AbsentSec,
     recovered |-> AbsentSec]
MapTimeline(c, d, r) ==
    [kind |-> "map", cases |-> c, deaths |-> d, recovered |-> r]

Timelines ==
    {AbsentTimeline, NotMapTimeline}
    \cup UNION {{MapTimeline(c, dr[1], dr[2]) : dr \in SectionPairs(c)} :
                    c \in CaseSections}

\* the parsed response body: None, a JSON number, a JSON list or a JSON object
NoneData == [kind |-> "none", timeline |-> AbsentTimeline]
NumberData == [kind |-> "number", timeline |-> AbsentTimeline]
ListData == [kind |-> "list", timeline |-> AbsentTimeline]
ObjectData(t) == [kind |-> "object", timeline |-> t]

HistBodies == {NumberData, ListData} \cup {ObjectData(t) : t \in Timelines}

\* what can happen to the HTTP request
FetchErrors == {"timeout", "network", "http_status", "invalid_json"}

\* fetch_indonesia_historical: every exception becomes None
fetch_indonesia_historical(outcome) ==
    IF outcome.err # "" THEN NoneData ELSE outcome.body

HistOutcomes ==
    {[err |-> e, body |-> NoneData] : e \in FetchErrors}
    \cup {[err |-> "", body |-> b] : b \in HistBodies}

\* dict.get with a default
HasKey(sec, k) == \E i \in 1..Len(sec.keys) : sec.keys[i] = k
DictGet(sec, k, default) ==
    IF HasKey(sec, k)
    THEN sec.vals[CHOOSE i \in 1..Len(sec.keys) : sec.keys[i] = k]
    ELSE default

(***************************************************************************)
(* get_historical_df: the parse loop                                       *)
(***************************************************************************)
\* the body of the try block for one date key: TRUE when it raises
\* variant: subscripting timeline["deaths"][k] raises on a missing entry as well
RowRaisesSubscript(timeline, k) ==
    \/ ~strptime(k).ok
    \/ timeline.deaths.kind # "map"
    \/ timeline.recovered.kind # "map"

RowRaises(timeline, k) ==
    \/ ~strptime(k).ok
    \/ timeline.deaths.kind = "notmap"
    \/ timeline.recovered.kind = "notmap"

RowOf(timeline, k) ==
    [Tanggal |-> strptime(k),
     Kasus |-> DictGet(timeline.cases, k, 0),
     Kematian |-> DictGet(timeline.deaths, k, 0),
     Sembuh |-> DictGet(timeline.recovered, k, 0)]

RECURSIVE ParseRows(_, _)
ParseRows(timeline, dates) ==
    IF dates = <<>> THEN <<>>
    ELSE IF RowRaises(timeline, Head(dates))
         THEN ParseRows(timeline, Tail(dates))
         ELSE <<RowOf(timeline, Head(dates))>>
              \o ParseRows(timeline, Tail(dates))

(***************************************************************************)
(* df.sort_values("Tanggal").reset_index(drop=True)                        *)
(***************************************************************************)
SortKinds == {"stable", "reversed"}

InsertRow(s, r, kind) ==
    LET before == {i \in 1..Len(s) :
                      IF kind = "stable" THEN DateLeq(s[i].Tanggal, r.Tanggal)
                      ELSE DateLess(s[i].Tanggal, r.Tanggal)}
        k == Cardinality(before)
    IN  SubSeq(s, 1, k) \o <<r>> \o SubSeq(s, k + 1, Len(s))

RECURSIVE sort_values(_, _)
sort_values(rows, kind) ==
    IF rows = <<>> THEN <<>>
    ELSE InsertRow(sort_values(SubSeq(rows, 1, Len(rows) - 1), kind),
                   rows[Len(rows)], kind)

(***************************************************************************)
(* column.diff().fillna(0).clip(lower=0).astype(int)                       *)
(***************************************************************************)
NaN == [isna |-> TRUE, v |-> 0]
Num(x) == [isna |-> FALSE, v |-> x]

\* subtracting a string raises TypeError
DiffRaises(col) ==
    \E i \in 2..Len(col) : ~IsNumber(col[i]) \/ ~IsNumber(col[i - 1])

\* variant: a difference that takes 0 as the value before the first row
diffPrependZero(col) ==
    [i \in 1..Len(col) |->
        IF i = 1 THEN Num(col[1]) ELSE Num(col[i] - col[i - 1])]

diff(col) ==
    [i \in 1..Len(col) |-> IF i = 1 THEN NaN ELSE Num(col[i] - col[i - 1])]

fillna(col, x) == [i \in 1..Len(col) |-> IF col[i].isna THEN Num(x) ELSE col[i]]

\* variant: no clamp
clipNone(col, lo) == col

clip_lower(col, lo) == [i \in 1..Len(col) |-> Num(Max(lo, col[i].v))]

astype_int(col) == [i \in 1..Len(col) |-> col[i].v]

Delta(col) == astype_int(clip_lower(fillna(diff(col), 0), 0))

Column(df, name) == [i \in 1..Len(df) |-> df[i][name]]

WithDeltas(df) ==
    LET kb == Delta(Column(df, "Kasus"))
        mb == Delta(Column(df, "Kematian"))
        sb == Delta(Column(df, "Sembuh"))
    IN  [i \in 1..Len(df) |->
            [Tanggal |-> df[i].Tanggal, Kasus |-> df[i].Kasus,
             Kematian |-> df[i].Kematian, Sembuh |-> df[i].Sembuh,
             Kasus_Baru |-> kb[i], Kematian_Baru |-> mb[i],
             Sembuh_Baru |-> sb[i]]]

(***************************************************************************)
(* numpy's global RandomState.  The state is the last seed and the number  *)
(* of variates drawn since; the variates of seed 42 that the generators    *)
(* consume are tabulated (in thousandths), every other state yields a      *)
(* stand-in stream that depends on both the seed and the position.         *)
(***************************************************************************)
\* np.random.normal(0, 10, 365) after np.random.seed(42), in thousandths
Normal42 == <<
    4967, -1383, 6477, 15230, -2342, -2341, 15792, 7674, -4695, 5426,
    -4634, -4657, 2420, -19133, -17249, -5623, -10128, 3142, -9080, -14123,
    14656, -2258, 675, -14247, -5444, 1109, -11510, 3757, -6006, -2917,
    -6017, 18523, -135, -10577, 8225, -12208, 2089, -19597, -13282, 1969,
    7385, 1714, -1156, -3011, -14785, -7198, -4606, 10571, 3436, -17630,
    3241, -3851, -6769, 6117, 10310, 9313, -8392, -3092, 3313, 9755,
    -4792, -1857, -11063, -11962, 8125, 13562, -720, 10035, 3616, -6451,
    3614, 15380, -358, 15646, -26197, 8219, 870, -2990, 918, -19876,
    -2197, 3571, 14779, -5183, -8085, -5018, 9154, 3288, -5298, 5133,
    971, 9686, -7021, -3277, -3921, -14635, 2961, 2611, 51, -2346,
    -14154, -4206, -3427, -8023, -1613, 4041, 18862, 1746, 2576, -744,
    -19188, -265, 602, 24632, -1924, 3015, -347, -11687, 11428, 7519,
    7910, -9094, 14028, -14019, 5869, 21905, -9905, -5663, 997, -5035,
    -15507, 686, -10623, 4736, -9194, 15499, -7833, -3221, 8135, -12309,
    2275, 13071, -16075, 1846, 2599, 7818, -12370, -13205, 5219, 2970,
    2505, 3464, -6800, 2323, 2931, -7144, 18658, 4738, -11913, 6566,
    -9747, 7871, 11586, -8207, 9634, 4128, 8221, 18968, -2454, -7537,
    -8895, -8158, -771, 3412, 2767, 8272, 130, 14535, -2647, 27202,
    6257, -8572, -10709, 4825, -2235, 7140, 4732, -728, -8468, -15148,
    -4465, 8564, 2141, -12457, 1732, 3853, -8839, 1537, 582, -11430,
    3578, 5608, 10831, 10538, -13777, -9378, 5150, 5138, 5150, 38527,
    5709, 11356, 9540, 6514, -3153, 7590, -7728, -2368, -4854, 819,
    23147, -18673, 6863, -16127, -4719, 10890, 643, -10777, -7153, 6796,
    -7304, 2165, 456, -6516, 21439, 6339, -20251, 1865, -6618, 8524,
    -7925, -1147, 5050, 8658, -12003, -3345, -4749, -6533, 17655, 4050,
    -12609, 9179, 21222, 10325, -15194, -4842, 12669, -7077, 4438, 7746,
    -9269, -595, -32413, -10244, -2526, -12478, 16324, -14301, -4400, 1307,
    14413, -14359, 11632, 102, -9815, 4621, 1991, -6002, 698, -3853,
    1135, 6621, 15860, -12378, 21330, -19521, -1518, 5883, 2810, -6227,
    -2081, -4930, -5894, 8496, 3570, -6929, 8996, 3073, 8129, 6296,
    -8290, -5602, 7473, 6104, -209, 1173, 12777, -5916, 5471, -2022,
    -2177, 10988, 8254, 8135, 13055, 210, 6820, -3103, 3242, -1301,
    970, 5952, -8182, 20924, -10060, -12142, 11581, 7917, 6241, 6283,
    -122, -8973, 758, -6772, 9751, -1471, -8255, -3214, 4129, -5637,
    -8222, 2437, 2450, -5069, -4710, 2320, -14481, -14075, -7184, -2134,
    3109, 14754, 8577, -1599, -190, -10025, -185, -2887, 3227, -8272,
    5193, 15327, -1088, 4017, 6901>>

\* the first 102 doubles in [0, 1) after np.random.seed(42), in thousandths
Uniform42 == <<
    374, 950, 731, 598, 156, 155, 58, 866, 601, 708,
    20, 969, 832, 212, 181, 183, 304, 524, 431, 291,
    611, 139, 292, 366, 456, 785, 199, 514, 592, 46,
    607, 170, 65, 948, 965, 808, 304, 97, 684, 440,
    122, 495, 34, 909, 258, 662, 311, 520, 546, 184,
    969, 775, 939, 894, 597, 921, 88, 195, 45, 325,
    388, 271, 828, 356, 280, 542, 140, 802, 74, 986,
    772, 198, 5, 815, 706, 729, 771, 74, 358, 115,
    863, 623, 330, 63, 310, 325, 729, 637, 887, 472,
    119, 713, 760, 561, 770, 493, 522, 427, 25, 107,
    31, 636>>

\* np.random.seed(s), applied to the global state st
\* variant: the generator is left in the state it is in
seedSkipped(st, s) == st

np_random_seed(st, s) == [seed |-> s, pos |-> 0]

Advance(st, n) == [st EXCEPT !.pos = @ + n]

StandIn(st, p) == st.seed * 7919 + p * 10473

\* the i-th of the np.random.normal(0, 10) variates drawn from state st
NormalMilli(st, i) ==
    LET p == st.pos + i
    IN  IF st.seed = 42 /\ p \in 1..Len(Normal42) THEN Normal42[p]
        ELSE (StandIn(st, p) % 60001) - 30000

\* the i-th of the doubles in [0, 1) drawn from state st
UniformMilli(st, i) ==
    LET p == st.pos + i
    IN  IF st.seed = 42 /\ p \in 1..Len(Uniform42) THEN Uniform42[p]
        ELSE StandIn(st, p) % 1000

\* states the generator may be in when the process starts (OS entropy)
EntropySeeds == {1, 2}

(***************************************************************************)
(* _get_sample_historical_df                                               *)
(***************************************************************************)
Periods == 365

\* 100 * exp(-((day - 150) ** 2) / 5000) for day = 0..364, in thousandths
BaseCurveMilli == <<
    1111, 1179, 1252, 1328, 1408, 1492, 1581, 1674, 1772, 1876,
    1984, 2098, 2217, 2343, 2474, 2612, 2757, 2908, 3066, 3232,
    3405, 3586, 3775, 3972, 4179, 4394, 4618, 4852, 5096, 5349,
    5613, 5888, 6174, 6471, 6780, 7101, 7433, 7779, 8137, 8508,
    8892, 9290, 9702, 10129, 10569, 11025, 11496, 11982, 12483, 13000,
    13534, 14083, 14649, 15232, 15831, 16447, 17081, 17732, 18400, 19086,
    19790, 20511, 21250, 22007, 22782, 23575, 24385, 25213, 26059, 26923,
    27804, 28702, 29618, 30550, 31499, 32465, 33447, 34445, 35459, 36488,
    37531, 38589, 39661, 40747, 41845, 42956, 44078, 45212, 46357, 47511,
    48675, 49848, 51028, 52215, 53409, 54607, 55811, 57018, 58228, 59440,
    60653, 61866, 63078, 64288, 65495, 66698, 67896, 69087, 70272, 71448,
    72615, 73771, 74916, 76048, 77167, 78270, 79358, 80429, 81481, 82514,
    83527, 84518, 85488, 86433, 87354, 88250, 89119, 89960, 90774, 91558,
    92312, 93034, 93725, 94384, 95009, 95600, 96156, 96676, 97161, 97609,
    98020, 98393, 98728, 99025, 99283, 99501, 99681, 99820, 99920, 99980,
    100000, 99980, 99920, 99820, 99681, 99501, 99283, 99025, 98728, 98393,
    98020, 97609, 97161, 96676, 96156, 95600, 95009, 94384, 93725, 93034,
    92312, 91558, 90774, 89960, 89119, 88250, 87354, 86433, 85488, 84518,
    83527, 82514, 81481, 80429, 79358, 78270, 77167, 76048, 74916, 73771,
    72615, 71448, 70272, 69087, 67896, 66698, 65495, 64288, 63078, 61866,
    60653, 59440, 58228, 57018, 55811, 54607, 53409, 52215, 51028, 49848,
    48675, 47511, 46357, 45212, 44078, 42956, 41845, 40747, 39661, 38589,
    37531, 36488, 35459, 34445, 33447, 32465, 31499, 30550, 29618, 28702,
    27804, 26923, 26059, 25213, 24385, 23575, 22782, 22007, 21250, 20511,
    19790, 19086, 18400, 17732, 17081, 16447, 15831, 15232, 14649, 14083,
    13534, 13000, 12483, 11982, 11496, 11025, 10569, 10129, 9702, 9290,
    8892, 8508, 8137, 7779, 7433, 7101, 6780, 6471, 6174, 5888,
    5613, 5349, 5096, 4852, 4618, 4394, 4179, 3972, 3775, 3586,
    3405, 3232, 3066, 2908, 2757, 2612, 2474, 2343, 2217, 2098,
    1984, 1876, 1772, 1674, 1581, 1492, 1408, 1328, 1252, 1179,
    1111, 1046, 984, 926, 871, 819, 769, 723, 679, 637,
    598, 560, 525, 492, 461, 432, 404, 378, 354, 331,
    309, 289, 269, 251, 235, 219, 204, 190, 177, 165,
    153, 143, 133, 123, 115, 106, 99, 92, 85, 79,
    73, 68, 63, 58, 54, 50, 46, 43, 39, 36,
    34, 31, 29, 26, 24, 22, 21, 19, 17, 16,
    15, 14, 12, 11, 11>>

NextDay(dt) ==
    IF dt.d < DaysInMonth(dt.y, dt.m) THEN [dt EXCEPT !.d = @ + 1]
    ELSE IF dt.m < 12 THEN [dt EXCEPT !.m = @ + 1, !.d = 1]
    ELSE [dt EXCEPT !.y = @ + 1, !.m = 1, !.d = 1]

\* the date n days after dt (timestamp arithmetic of pd.date_range)
RECURSIVE AddDays(_, _)
AddDays(dt, n) ==
    IF dt.d + n <= DaysInMonth(dt.y, dt.m) THEN [dt EXCEPT !.d = @ + n]
    ELSE AddDays(NextDay([dt EXCEPT !.d = DaysInMonth(dt.y, dt.m)]),
                 n - (DaysInMonth(dt.y, dt.m) - dt.d) - 1)

\* pd.date_range(start, periods, freq="D")
date_range(start, periods) == [i \in 1..periods |-> AddDays(start, i - 1)]

SampleDates == date_range([ok |-> TRUE, y |-> 2020, m |-> 3, d |-> 1], Periods)

\* (base_curve + noise).clip(min=1).astype(int)
DailyCase(baseMilli, noiseMilli) ==
    IF baseMilli + noiseMilli < 1000 THEN 1
    ELSE (baseMilli + noiseMilli) \div 1000

\* np.cumsum over xs[lo..hi], by halves
RECURSIVE CumSumRange(_, _, _)
CumSumRange(xs, lo, hi) ==
    IF lo = hi THEN <<xs[lo]>>
    ELSE LET mid == (lo + hi) \div 2
             left == CumSumRange(xs, lo, mid)
             right == CumSumRange(xs, mid + 1, hi)
         IN  left \o [i \in 1..Len(right) |-> right[i] + left[Len(left)]]

cumsum(xs, n) == IF n = 0 THEN <<>> ELSE CumSumRange(xs, 1, n)

\* (x * 0.025).astype(int)
Times0025(x) == (x * 25) \div 1000

\* variant: rounded to the nearest integer instead of truncated
Times085Rounded(x) == (x * 85 + 50) \div 100

\* (x * 0.85).astype(int)
Times085(x) == (x * 85) \div 100

\* the series, given the generator state the call finds
get_sample_historical_df(st) ==
    LET seeded == np_random_seed(st, 42)
        daily_cases == [i \in 1..Periods |->
                           DailyCase(BaseCurveMilli[i], NormalMilli(seeded, i))]
        cumulative_cases == cumsum(daily_cases, Periods)
    IN  [i \in 1..Periods |->
            [Tanggal |-> SampleDates[i],
             Kasus |-> cumulative_cases[i],
             Kematian |-> Times0025(cumulative_cases[i]),
             Sembuh |-> Times085(cumulative_cases[i]),
             Kasus_Baru |-> daily_cases[i],
             Kematian_Baru |-> Times0025(daily_cases[i]),
             Sembuh_Baru |-> Times085(daily_cases[i])]]

\* the generator state the call leaves behind
RngAfterSample(st) == Advance(np_random_seed(st, 42), Periods)

(***************************************************************************)
(* get_historical_df                                                       *)
(***************************************************************************)
Raised(e, st) ==
    [status |-> "raised", error |-> e, src |-> "none", df |-> <<>>,
     rows |-> <<>>, rng |-> st]

\* variant: an empty frame in place of the fallback series
EmptyResult(st, rows) ==
    [status |-> "returned", error |-> "", src |-> "sample",
     df |-> <<>>, rows |-> rows, rng |-> st]

SampleResult(st, rows) ==
    [status |-> "returned", error |-> "", src |-> "sample",
     df |-> get_sample_historical_df(st), rows |-> rows,
     rng |-> RngAfterSample(st)]

LiveResult(df, rows, st) ==
    [status |-> "returned", error |-> "", src |-> "live", df |-> df,
     rows |-> rows, rng |-> st]

get_historical_df(data, st, kind) ==
    IF data.kind = "number"
    THEN Raised("TypeError", st)             \* "timeline" not in <number>
    ELSE IF data.kind \in {"none", "list"} \/ data.timeline.kind = "absent"
    THEN SampleResult(st, <<>>)
    ELSE IF data.timeline.kind = "notmap"
    THEN Raised("AttributeError", st)        \* timeline.get
    ELSE IF data.timeline.cases.kind = "notmap"
    THEN Raised("AttributeError", st)        \* .keys()
    ELSE LET timeline == data.timeline
             dates == timeline.cases.keys
             rows == ParseRows(timeline, dates)
         IN  IF rows = <<>> THEN SampleResult(st, rows)
             ELSE LET df == sort_values(rows, kind)
                  IN  IF \/ DiffRaises(Column(df, "Kasus"))
                         \/ DiffRaises(Column(df, "Kematian"))
                         \/ DiffRaises(Column(df, "Sembuh"))
                      THEN [Raised("TypeError", st) EXCEPT !.rows = rows]
                      ELSE LiveResult(WithDeltas(df), rows, st)

NoCall == [status |-> "none", error |-> "", src |-> "none", df |-> <<>>]

CallOutcome(r) ==
    [status |-> r.status, error |-> r.error, src |-> r.src, df |-> r.df]

(***************************************************************************)
(* get_current_stats                                                       *)
(***************************************************************************)
Missing == [has |-> FALSE, v |-> 0]
Present(x) == [has |-> TRUE, v |-> x]

\* dict.get(key, 0) on a field of the response object
FieldGet(f) == IF f.has THEN f.v ELSE 0

UpdatedKinds == {"absent", "zero", "millis", "text", "huge"}

StatsFieldValues == {Missing} \cup {Present(n) : n \in {0, MaxCount}}

StatsObjects ==
    [kind : {"object"}, cases : StatsFieldValues, deaths : StatsFieldValues,
     recovered : StatsFieldValues, active : StatsFieldValues,
     rest : {Missing, Present(1)}, updated : UpdatedKinds]

StatsShape(k) ==
    [kind |-> k, cases |-> Missing, deaths |-> Missing, recovered |-> Missing,
     active |-> Missing, rest |-> Missing, updated |-> "absent"]

NoneStats == StatsShape("none")

StatsBodies == {StatsShape("number"), StatsShape("list")} \cup StatsObjects

StatsOutcomes ==
    {[err |-> e, body |-> NoneStats] : e \in FetchErrors}
    \cup {[err |-> "", body |-> b] : b \in StatsBodies}

\* fetch_indonesia_current: every exception becomes None
fetch_indonesia_current(outcome) ==
    IF outcome.err # "" THEN NoneStats ELSE outcome.body

\* variant: the hard-coded snapshot without its flag set
UnflaggedSnapshot ==
    [cases |-> 6829221, deaths |-> 162063, recovered |-> 6647104,
     active |-> 20054, critical |-> 0, cases_per_million |-> 24466,
     deaths_per_million |-> 581, tests |-> 114158919,
     population |-> 279134505, updated |-> "now", is_fallback |-> FALSE]

FallbackSnapshot ==
    [cases |-> 6829221, deaths |-> 162063, recovered |-> 6647104,
     active |-> 20054, critical |-> 0, cases_per_million |-> 24466,
     deaths_per_million |-> 581, tests |-> 114158919,
     population |-> 279134505, updated |-> "now", is_fallback |-> TRUE]

LiveSnapshot(data) ==
    [cases |-> FieldGet(data.cases), deaths |-> FieldGet(data.deaths),
     recovered |-> FieldGet(data.recovered), active |-> FieldGet(data.active),
     critical |-> FieldGet(data.rest),
     cases_per_million |-> FieldGet(data.rest),
     deaths_per_million |-> FieldGet(data.rest),
     tests |-> FieldGet(data.rest), population |-> FieldGet(data.rest),
     updated |-> IF data.updated \in {"absent", "zero"} THEN "None"
                 ELSE "iso",
     is_fallback |-> FALSE]

NoSnapshot ==
    [cases |-> 0, deaths |-> 0, recovered |-> 0, active |-> 0, critical |-> 0,
     cases_per_million |-> 0, deaths_per_million |-> 0, tests |-> 0,
     population |-> 0, updated |-> "None", is_fallback |-> FALSE]

get_current_stats(data) ==
    IF data.kind = "none"
    THEN [status |-> "returned", error |-> "", snap |-> FallbackSnapshot]
    ELSE IF data.kind \in {"number", "list"}
    THEN [status |-> "raised", error |-> "AttributeError", snap |-> NoSnapshot]
    ELSE IF data.updated = "text"
    THEN [status |-> "raised", error |-> "TypeError", snap |-> NoSnapshot]
    ELSE IF data.updated = "huge"
    THEN [status |-> "raised", error |-> "ValueError", snap |-> NoSnapshot]
    ELSE [status |-> "returned", error |-> "", snap |-> LiveSnapshot(data)]

NoStats == [status |-> "none", error |-> "", snap |-> NoSnapshot]

(***************************************************************************)
(* generate_province_simulation                                            *)
(***************************************************************************)
\* population in hundredths of a million; `words` are the blank-separated
\* words of the name, on which the substring tests of the code are decided
PROVINSI_POPULASI == <<
    [Provinsi |-> "Aceh", words |-> <<"Aceh">>, pop |-> 537],
    [Provinsi |-> "Sumatera Utara", words |-> <<"Sumatera", "Utara">>, pop |-> 1480],
    [Provinsi |-> "Sumatera Barat", words |-> <<"Sumatera", "Barat">>, pop |-> 553],
    [Provinsi |-> "Riau", words |-> <<"Riau">>, pop |-> 639],
    [Provinsi |-> "Jambi", words |-> <<"Jambi">>, pop |-> 362],
    [Provinsi |-> "Sumatera Selatan", words |-> <<"Sumatera", "Selatan">>, pop |-> 847],
    [Provinsi |-> "Bengkulu", words |-> <<"Bengkulu">>, pop |-> 201],
    [Provinsi |-> "Lampung", words |-> <<"Lampung">>, pop |-> 901],
    [Provinsi |-> "Kep. Bangka Belitung", words |-> <<"Kep.", "Bangka", "Belitung">>, pop |-> 152],
    [Provinsi |-> "Kep. Riau", words |-> <<"Kep.", "Riau">>, pop |-> 214],
    [Provinsi |-> "DKI Jakarta", words |-> <<"DKI", "Jakarta">>, pop |-> 1056],
    [Provinsi |-> "Jawa Barat", words |-> <<"Jawa", "Barat">>, pop |-> 4932],
    [Provinsi |-> "Jawa Tengah", words |-> <<"Jawa", "Tengah">>, pop |-> 3674],
    [Provinsi |-> "DI Yogyakarta", words |-> <<"DI", "Yogyakarta">>, pop |-> 388],
    [Provinsi |-> "Jawa Timur", words |-> <<"Jawa", "Timur">>, pop |-> 4067],
    [Provinsi |-> "Banten", words |-> <<"Banten">>, pop |-> 1269],
    [Provinsi |-> "Bali", words |-> <<"Bali">>, pop |-> 432],
    [Provinsi |-> "Nusa Tenggara Barat", words |-> <<"Nusa", "Tenggara", "Barat">>, pop |-> 532],
    [Provinsi |-> "Nusa Tenggara Timur", words |-> <<"Nusa", "Tenggara", "Timur">>, pop |-> 546],
    [Provinsi |-> "Kalimantan Barat", words |-> <<"Kalimantan", "Barat">>, pop |-> 541],
    [Provinsi |-> "Kalimantan Tengah", words |-> <<"Kalimantan", "Tengah">>, pop |-> 266],
    [Provinsi |-> "Kalimantan Selatan", words |-> <<"Kalimantan", "Selatan">>, pop |-> 430],
    [Provinsi |-> "Kalimantan Timur", words |-> <<"Kalimantan", "Timur">>, pop |-> 377],
    [Provinsi |-> "Kalimantan Utara", words |-> <<"Kalimantan", "Utara">>, pop |-> 70],
    [Provinsi |-> "Sulawesi Utara", words |-> <<"Sulawesi", "Utara">>, pop |-> 262],
    [Provinsi |-> "Sulawesi Tengah", words |-> <<"Sulawesi", "Tengah">>, pop |-> 306],
    [Provinsi |-> "Sulawesi Selatan", words |-> <<"Sulawesi", "Selatan">>, pop |-> 907],
    [Provinsi |-> "Sulawesi Tenggara", words |-> <<"Sulawesi", "Tenggara">>, pop |-> 262],
    [Provinsi |-> "Gorontalo", words |-> <<"Gorontalo">>, pop |-> 120],
    [Provinsi |-> "Sulawesi Barat", words |-> <<"Sulawesi", "Barat">>, pop |-> 142],
    [Provinsi |-> "Maluku", words |-> <<"Maluku">>, pop |-> 185],
    [Provinsi |-> "Maluku Utara", words |-> <<"Maluku", "Utara">>, pop |-> 128],
    [Provinsi |-> "Papua Barat", words |-> <<"Papua", "Barat">>, pop |-> 113],
    [Provinsi |-> "Papua", words |-> <<"Papua">>, pop |-> 430]>>

RECURSIVE SumPop(_)
SumPop(n) == IF n = 0 THEN 0 ELSE SumPop(n - 1) + PROVINSI_POPULASI[n].pop

total_pop == SumPop(Len(PROVINSI_POPULASI))

HasWord(words, w) == \E i \in 1..Len(words) : words[i] = w

\* variant: only "Jakarta" in prov
BoostedJakarta(p) == HasWord(p.words, "Jakarta")

\* "Jakarta" in prov or "Jawa" in prov
Boosted(p) == HasWord(p.words, "Jakarta") \/ HasWord(p.words, "Jawa")

\* floor(a * b / c) without forming a * b (0 <= b < c)
RECURSIVE MulDivQR(_, _, _)
MulDivQR(a, b, c) ==
    IF a = 0 THEN [q |-> 0, r |-> 0]
    ELSE LET h == MulDivQR(a \div 2, b, c)
             t == 2 * h.r + (a % 2) * b
         IN  [q |-> 2 * h.q + t \div c, r |-> t % c]

MulDiv(a, b, c) == MulDivQR(a, b, c).q

\* variant: the difference without the clamp
AktifUnclamped(kasus, kematian, sembuh) == kasus - kematian - sembuh

\* max(0, kasus - kematian - sembuh)
Aktif(kasus, kematian, sembuh) == Max(0, kasus - kematian - sembuh)

\* noise *= 1.3 for the boosted provinces (numerator over 10)
NoiseFactor(p) == IF Boosted(p) THEN 13 ELSE 10

ProvinceRow(total_cases, i, seeded) ==
    LET p == PROVINSI_POPULASI[i]
        noise == 500 + UniformMilli(seeded, 3 * i - 2)
        kasus == MulDiv(total_cases, p.pop * noise * NoiseFactor(p),
                        total_pop * 10000)
        kematian == MulDiv(kasus, 15000 + 15 * UniformMilli(seeded, 3 * i - 1),
                           1000000)
        sembuh == MulDiv(kasus, 90000 + 8 * UniformMilli(seeded, 3 * i), 100000)
    IN  [Provinsi |-> p.Provinsi, Kasus |-> kasus, Kematian |-> kematian,
         Sembuh |-> sembuh, Aktif |-> Aktif(kasus, kematian, sembuh)]

\* df.sort_values("Kasus", ascending=False).reset_index(drop=True)
InsertDesc(s, r, kind) ==
    LET before == {i \in 1..Len(s) :
                      IF kind = "stable" THEN s[i].Kasus >= r.Kasus
                      ELSE s[i].Kasus > r.Kasus}
        k == Cardinality(before)
    IN  SubSeq(s, 1, k) \o <<r>> \o SubSeq(s, k + 1, Len(s))

RECURSIVE sort_desc(_, _)
sort_desc(rows, kind) ==
    IF rows = <<>> THEN <<>>
    ELSE InsertDesc(sort_desc(SubSeq(rows, 1, Len(rows) - 1), kind),
                    rows[Len(rows)], kind)

generate_province_simulation(total_cases, st, kind) ==
    LET seeded == np_random_seed(st, 42)
        rows == [i \in 1..Len(PROVINSI_POPULASI) |->
                    ProvinceRow(total_cases, i, seeded)]
    IN  sort_desc(rows, kind)

RngAfterProvince(st) ==
    Advance(np_random_seed(st, 42), 3 * Len(PROVINSI_POPULASI))

(***************************************************************************)
(* app.main: session state, deep link, navigation                          *)
(***************************************************************************)
Groups == <<"Data COVID-19", "Vaksinasi", "Alat">>

pages_by_group ==
    [g \in {"Data COVID-19", "Vaksinasi", "Alat"} |->
        CASE g = "Data COVID-19" ->
                 <<"Dashboard Utama", "Visualisasi COVID-19", "Analisis GIS",
                   "Statistik Data", "Database COVID-19">>
          [] g = "Vaksinasi" -> <<"Trend Vaksinasi">>
          [] g = "Alat" -> <<"Kalkulator Risiko">>]

Range(seq) == {seq[i] : i \in 1..Len(seq)}

all_pages == UNION {Range(pages_by_group[g]) : g \in DOMAIN pages_by_group}

\* a session or payload value: absent, a string (maybe padded with blanks)
\* or a value that is not a string
NoVal == [has |-> FALSE, isstr |-> FALSE, v |-> "", pad |-> FALSE]
Str(x) == [has |-> TRUE, isstr |-> TRUE, v |-> x, pad |-> FALSE]
Padded(x) == [has |-> TRUE, isstr |-> TRUE, v |-> x, pad |-> TRUE]
NotStr == [has |-> TRUE, isstr |-> FALSE, v |-> "", pad |-> FALSE]

\* value in options, for a list of strings
InOptions(val, options) ==
    val.has /\ val.isstr /\ ~val.pad /\ val.v \in Range(options)

\* the decoded "state" parameter
UrlNone == [kind |-> "none", app_page |-> NoVal]
UrlGarbage == [kind |-> "garbage", app_page |-> NoVal]
UrlNumber == [kind |-> "number", app_page |-> NoVal]
UrlObject(val) == [kind |-> "object", app_page |-> val]

UrlValues ==
    {NoVal, NotStr, Str("Analisis GIS"), Str("Kalkulator Risiko"),
     Str("Halaman Lain"), Padded("Statistik Data")}

Urls == {UrlNone, UrlGarbage, UrlNumber} \cup {UrlObject(x) : x \in UrlValues}

\* variant: the payload's value replaces a value the session already holds
syncOverwrites(sess, u) ==
    IF sess.synced THEN [sess |-> sess, raised |-> FALSE]
    ELSE LET marked == [sess EXCEPT !.synced = TRUE]
         IN  IF u.kind = "object" /\ u.app_page.has
             THEN [sess |-> [marked EXCEPT !.app_page = u.app_page],
                   raised |-> FALSE]
             ELSE [sess |-> marked, raised |-> u.kind = "number"]

\* ui.sync_state_from_url("app", keys=["app_page"])
sync_state_from_url(sess, u) ==
    IF sess.synced THEN [sess |-> sess, raised |-> FALSE]
    ELSE LET marked == [sess EXCEPT !.synced = TRUE]
         IN  IF u.kind \in {"none", "garbage"}
             THEN [sess |-> marked, raised |-> FALSE]
             ELSE IF u.kind = "number"
             THEN [sess |-> marked, raised |-> TRUE]   \* k in <number>
             ELSE IF u.app_page.has /\ ~sess.app_page.has
             THEN [sess |-> [marked EXCEPT !.app_page = u.app_page],
                   raised |-> FALSE]
             ELSE [sess |-> marked, raised |-> FALSE]

\* ui.request_navigation
request_navigation(sess, page_label) == [sess EXCEPT !.pending = page_label]

\* variant: any pending string becomes the page
ApplyPendingUnchecked(sess) ==
    IF sess.pending.has /\ sess.pending.isstr
    THEN [sess EXCEPT !.pending = NoVal, !.app_page = Str(sess.pending.v)]
    ELSE [sess EXCEPT !.pending = NoVal]

\* pop of _app_page_pending and its application
ApplyPending(sess) ==
    LET pending_page == sess.pending
        popped == [sess EXCEPT !.pending = NoVal]
    IN  IF pending_page.has /\ pending_page.isstr /\ pending_page.v # ""
           /\ pending_page.v \in all_pages
        THEN [popped EXCEPT !.app_page = Str(pending_page.v)]
        ELSE popped

\* the group whose pages hold the active page, else the first group
CurrentGroup(sess) ==
    IF \E i \in 1..Len(Groups) : InOptions(sess.app_page, pages_by_group[Groups[i]])
    THEN Groups[CHOOSE i \in 1..Len(Groups) :
                    /\ InOptions(sess.app_page, pages_by_group[Groups[i]])
                    /\ \A j \in 1..(i - 1) :
                          ~InOptions(sess.app_page, pages_by_group[Groups[j]])]
    ELSE "Data COVID-19"

EnsureGroup(sess) ==
    IF ~InOptions(sess.nav_group, Groups)
    THEN [sess EXCEPT !.nav_group = Str(CurrentGroup(sess))]
    ELSE sess

\* variant: the page is kept whatever the group
EnsurePageKept(sess) == sess

EnsurePage(sess) ==
    IF ~InOptions(sess.app_page, pages_by_group[sess.nav_group.v])
    THEN [sess EXCEPT !.app_page = Str(pages_by_group[sess.nav_group.v][1])]
    ELSE sess

\* lines 100-152 of main
Navigate(sess) == EnsurePage(EnsureGroup(ApplyPending(sess)))

(***************************************************************************)
(* app.main: cached loads and routing                                      *)
(***************************************************************************)
NoEntry(v) == [has |-> FALSE, val |-> v]
Entry(v) == [has |-> TRUE, val |-> v]

\* fetch outcomes the application runs are explored with
AppHistOutcomes ==
    {[err |-> "timeout", body |-> NoneData],
     [err |-> "", body |-> NumberData],
     [err |-> "", body |->
         ObjectData(MapTimeline(MapSec(<<K_1_22_20>>, <<1>>),
                                AbsentSec, AbsentSec))]}

AppStatsOutcomes ==
    {[err |-> "timeout", body |-> NoneStats],
     [err |-> "", body |-> StatsShape("list")],
     [err |-> "", body |->
         [StatsShape("object") EXCEPT !.cases = Present(MaxCount)]]}

\* the notices each page renderer puts on the page
PageNotices(halaman, current_stats) ==
    CASE halaman = "Dashboard Utama" ->
             IF current_stats.is_fallback THEN {"fallback_snapshot"} ELSE {}
      [] halaman = "Analisis GIS" -> {"province_simulation"}
      [] halaman = "Trend Vaksinasi" -> {"vaccine_source_info"}
      [] OTHER -> {}

\* the loaded data each page renderer is handed
PageUses(halaman) ==
    CASE halaman = "Dashboard Utama" -> {"stats", "historical"}
      [] halaman = "Visualisasi COVID-19" -> {"historical"}
      [] halaman = "Analisis GIS" -> {"province"}
      [] halaman = "Statistik Data" -> {"historical", "stats"}
      [] halaman = "Database COVID-19" -> {"historical"}
      [] halaman = "Kalkulator Risiko" -> {"stats"}
      [] OTHER -> {}

NothingRendered ==
    [status |-> "none", page |-> "", notices |-> {}, uses |-> {},
     hist_src |-> "none", snap_fallback |-> FALSE]

Exception(halaman) ==
    [status |-> "exception", page |-> halaman, notices |-> {}, uses |-> {},
     hist_src |-> "none", snap_fallback |-> FALSE]

NoProvince == <<>>

(***************************************************************************)
(* utils.py: the series the metrics operations are given                   *)
(***************************************************************************)
MaxLen == 3           \* most rows of a short series

Abs(x) == IF x < 0 THEN -x ELSE x

RECURSIVE GCD(_, _)
GCD(a, b) == IF b = 0 THEN a ELSE GCD(b, a % b)

\* the float n / d, kept as the fraction in lowest terms
Rat(n, d) ==
    LET g == GCD(Abs(n), Abs(d))
        s == IF d < 0 THEN -1 ELSE 1
    IN  [n |-> (s * n) \div g, d |-> (s * d) \div g]

RatLess(a, b) == a.n * b.d < b.n * a.d
RatLeq(a, b) == a.n * b.d <= b.n * a.d
RatMul(a, b) == Rat(a.n * b.n, a.d * b.d)
RatDiv(a, b) == Rat(a.n * b.d, a.d * b.n)
RatSub(a, b) == Rat(a.n * b.d - b.n * a.d, a.d * b.d)

\* timestamps count half days, so that a datetime can fall on noon
Midnight(day) == 2 * day
Noon(day) == 2 * day + 1

\* cumulative counts of the short series; steps of 1, 11 and 12 give growth
\* ratios on both sides of the clamp of calculate_r0_estimate
MetricCounts == {0, 1, 12}

\* a series on consecutive days, or one whose first date occurs twice
DayPatterns == {"daily", "repeat"}

DayOf(pattern, i) == IF pattern = "daily" THEN i ELSE Max(1, i - 1)

\* a series as get_historical_df builds it from cumulative counts: index
\* labels from 0, dates ascending, Kasus_Baru the clamped difference
MakeSeries(kasus, pattern) ==
    LET kb == Delta(kasus)
    IN  [i \in 1..Len(kasus) |->
            [idx |-> i - 1, Tanggal |-> Midnight(DayOf(pattern, i)),
             Kasus |-> kasus[i], Kasus_Baru |-> kb[i]]]

ShortSeries ==
    {MakeSeries(k, p) :
        k \in UNION {[1..n -> MetricCounts] : n \in 0..MaxLen},
        p \in DayPatterns}

\* cumulative counts of the series long enough for calculate_doubling_time
DoublingCounts == {0, 1000, 1001, 2000}

LongLengths == {13, 14, 15}

\* n rows: `first` from the 14th row from the end on, `last` in the last row
\* and 0 before
LongKasus(n, first, last) ==
    [i \in 1..n |-> IF i = n THEN last ELSE IF i >= n - 13 THEN first ELSE 0]

LongSeries ==
    {MakeSeries(LongKasus(n, a, b), "daily") :
        n \in LongLengths, a \in DoublingCounts, b \in DoublingCounts}

\* daily new cases of the series used for the trend over three days
TrendIncrements == {3, 4}

TrendLengths == {7}

RECURSIVE cumsum_from(_, _)
cumsum_from(start, steps) ==
    IF steps = <<>> THEN <<start>>
    ELSE <<start>> \o cumsum_from(start + Head(steps), Tail(steps))

TrendSeries ==
    {MakeSeries(cumsum_from(0, steps), "daily") :
        steps \in UNION {[1..(n - 1) -> TrendIncrements] : n \in TrendLengths}}

MetricSeries == ShortSeries \cup LongSeries \cup TrendSeries

(***************************************************************************)
(* utils.py: filter_by_date_range                                          *)
(***************************************************************************)
NoneArg == [kind |-> "None", v |-> 0]
DateArg(day) == [kind |-> "date", v |-> day]
DatetimeArg(t) == [kind |-> "datetime", v |-> t]

\* pd.Timestamp of a date is its midnight, of a datetime the instant itself
pd_Timestamp(x) == IF x.kind = "date" THEN Midnight(x.v) ELSE x.v

DateArgs ==
    {NoneArg} \cup {DateArg(d) : d \in 1..MaxLen} \cup {DatetimeArg(Noon(1))}

\* df.copy(): a new frame with the same rows
copy(d) == d

\* result[result[date_column] >= ts]: a new frame of the rows whose mask holds
\* variant: the first date excluded
FromDateExclusive(d, ts) == SelectSeq(d, LAMBDA row : row.Tanggal > ts)

FromDate(d, ts) == SelectSeq(d, LAMBDA row : row.Tanggal >= ts)

\* variant: the last date excluded
UpToDateExclusive(d, ts) == SelectSeq(d, LAMBDA row : row.Tanggal < ts)

UpToDate(d, ts) == SelectSeq(d, LAMBDA row : row.Tanggal <= ts)

filter_by_date_range(d, start_date, end_date) ==
    IF d = <<>> THEN d
    ELSE LET r0 == copy(d)
             r1 == IF start_date.kind # "None"
                   THEN FromDate(r0, pd_Timestamp(start_date)) ELSE r0
         IN  IF end_date.kind # "None"
             THEN UpToDate(r1, pd_Timestamp(end_date)) ELSE r1

\* variant: the rows are dropped from the frame that was passed in
FilterInPlace(d, start_date, end_date) ==
    filter_by_date_range(d, start_date, end_date)

\* the input frame after the call: only the local `result` is rebound
FilterLeaves(d, start_date, end_date) == d

(***************************************************************************)
(* utils.py: rates, rolling average, R0 estimate                           *)
(***************************************************************************)
Zero == Rat(0, 1)
One == Rat(1, 1)

\* variant: the fraction, not the percentage
cfrFraction(deaths, cases) ==
    IF cases = 0 THEN Zero ELSE Rat(deaths, cases)

calculate_cfr(deaths, cases) ==
    IF cases = 0 THEN Zero ELSE RatMul(Rat(deaths, cases), Rat(100, 1))

calculate_recovery_rate(recovered, cases) ==
    IF cases = 0 THEN Zero ELSE RatMul(Rat(recovered, cases), Rat(100, 1))

calculate_active_rate(active, cases) ==
    IF cases = 0 THEN Zero ELSE RatMul(Rat(active, cases), Rat(100, 1))

\* variant: without the guard for r0 <= 1
herdUnguarded(r0) ==
    RatMul(RatSub(One, RatDiv(One, r0)), Rat(100, 1))

calculate_herd_immunity_threshold(r0) ==
    IF RatLeq(r0, One) THEN Zero
    ELSE RatMul(RatSub(One, RatDiv(One, r0)), Rat(100, 1))

RECURSIVE SumOf(_, _, _)
SumOf(col, lo, hi) == IF lo > hi THEN 0 ELSE col[hi] + SumOf(col, lo, hi - 1)

\* Series.mean() of a column without missing values
mean(col) == Rat(SumOf(col, 1, Len(col)), Len(col))

\* df.tail(n) and df.head(n)
tailAll(d, n) == d
tail(d, n) == SubSeq(d, Max(1, Len(d) - n + 1), Len(d))
head(d, n) == SubSeq(d, 1, Min(n, Len(d)))

Returned(v) == [status |-> "returned", error |-> "", ret |-> v]
Raises(e) == [status |-> "raised", error |-> e, ret |-> <<>>]

\* Series.rolling(window, min_periods=1): pandas rejects a negative window
\* and a window below min_periods, both with ValueError
RollingInvalid(window) == window < 0 \/ 1 > window

\* variant: the sum over the window divided by the window size
RollingMeanOfWindow(col, window, i) ==
    Rat(SumOf(col, Max(1, i - window + 1), i), window)

\* mean over the window ending at row i, over however many rows it holds
RollingMean(col, window, i) ==
    LET lo == Max(1, i - window + 1)
    IN  Rat(SumOf(col, lo, i), i - lo + 1)

\* variant: a window below 1 taken as 1
rollingClamped(d, column, window) ==
    Returned([i \in 1..Len(d) |->
                 RollingMean(Column(d, column), Max(1, window), i)])

calculate_rolling_average(d, column, window) ==
    IF RollingInvalid(window) THEN Raises("ValueError")
    ELSE Returned([i \in 1..Len(d) |->
                      RollingMean(Column(d, column), window, i)])

\* variant: the whole part of the averages written back into the column
RollingInPlace(d, column, window) ==
    IF RollingInvalid(window) THEN d
    ELSE [i \in 1..Len(d) |->
             LET m == RollingMean(Column(d, column), window, i)
             IN  [d[i] EXCEPT ![column] = m.n \div m.d]]

\* the input frame after the call: rolling().mean() builds a new Series
RollingLeaves(d, column, window) == d

RatMaxLeft(a, b) == a
RatMax(a, b) == IF RatLess(a, b) THEN b ELSE a
RatMin(a, b) == IF RatLess(b, a) THEN b ELSE a

calculate_r0_estimate(d, generation_time) ==
    IF Len(d) < generation_time * 2 THEN One
    ELSE LET recent == tail(d, generation_time * 2)
             current_avg ==
                 mean(Column(tail(recent, generation_time), "Kasus_Baru"))
             previous_avg ==
                 mean(Column(head(recent, generation_time), "Kasus_Baru"))
         IN  IF RatLeq(previous_avg, Zero) THEN One
             ELSE LET ratio == RatDiv(current_avg, previous_avg)
                      \* ratio ** (generation_time / generation_time)
                      r0 == ratio
                  IN  RatMax(Rat(1, 10), RatMin(Rat(10, 1), r0))

(***************************************************************************)
(* utils.py: calculate_doubling_time, in IEEE 754 double precision         *)
(***************************************************************************)
\* A positive double is [hi, lo, e]: the 53-bit significand hi * 2^27 + lo
\* and the exponent e of its leading bit.
Two27 == 134217728

Dbl(hi, lo, e) == [hi |-> hi, lo |-> lo, e |-> e]

\* np.log(2) = 0x1.62e42fefa39efp-1
LN2Single == Dbl(46516319, 0, -1)
LN2 == Dbl(46516319, 117062127, -1)

\* np.log(1 + growth_rate), growth_rate = (end / start) ** (1 / 14) - 1, for
\* the ratios end / start of the long series; 1 + growth_rate is exact
LogOfGrowth(start_cases, end_cases) ==
    LET ratio == Rat(end_cases, start_cases)
    IN  CASE ratio = Rat(2, 1) -> Dbl(53161508, 57089446, -5)
          [] ratio = Rat(1001, 1000) -> Dbl(39248651, 48849811, -14)
          [] ratio = Rat(2000, 1001) -> Dbl(53084850, 121219303, -5)

\* the rounded 14th root of a ratio above 1 exceeds 1 for counts of this size
GrowthRatePositive(start_cases, end_cases) == end_cases > start_cases

\* 106-bit integers as [hi, lo] with lo < 2^27
Wide(hi, lo) == [hi |-> hi, lo |-> lo]
WideGeq(a, b) == a.hi > b.hi \/ (a.hi = b.hi /\ a.lo >= b.lo)
WideDouble(a) ==
    Wide(2 * a.hi + ((2 * a.lo) \div Two27), (2 * a.lo) % Two27)
WideSub(a, b) ==
    IF a.lo >= b.lo THEN Wide(a.hi - b.hi, a.lo - b.lo)
    ELSE Wide(a.hi - b.hi - 1, a.lo + Two27 - b.lo)
WideInc(a) ==
    IF a.lo + 1 = Two27 THEN Wide(a.hi + 1, 0) ELSE Wide(a.hi, a.lo + 1)

\* one step of binary long division by m: the next quotient bit
DivStep(st, m) ==
    LET r2 == WideDouble(st.r)
        q2 == WideDouble(st.q)
    IN  IF WideGeq(r2, m) THEN [q |-> WideInc(q2), r |-> WideSub(r2, m)]
        ELSE [q |-> q2, r |-> r2]

\* quotient and remainder after k steps, the first half of them first; the
\* remainder stays below the divisor
RECURSIVE DivSteps(_, _, _)
DivSteps(st, m, k) ==
    IF k = 0 THEN st
    ELSE IF k = 1 THEN DivStep(st, m)
    ELSE LET mid == DivSteps(st, m, k \div 2)
         IN  IF WideGeq(m, mid.r) THEN DivSteps(mid, m, k - (k \div 2))
             ELSE mid

\* a / b of two positive doubles, rounded to nearest, ties to even
FloatDiv(a, b) ==
    LET ma == Wide(a.hi, a.lo)
        mb == Wide(b.hi, b.lo)
        ge == WideGeq(ma, mb)
        qr == IF ge
              THEN DivSteps([q |-> Wide(0, 1), r |-> WideSub(ma, mb)], mb, 52)
              ELSE DivSteps([q |-> Wide(0, 0), r |-> ma], mb, 53)
        twice == WideDouble(qr.r)
        up == \/ (WideGeq(twice, mb) /\ twice # mb)
              \/ (twice = mb /\ qr.q.lo % 2 = 1)
        q == IF up THEN WideInc(qr.q) ELSE qr.q
        e == IF ge THEN a.e - b.e ELSE a.e - b.e - 1
    IN  IF q.hi = Two27 \div 2 THEN Dbl(q.hi \div 2, 0, e + 1)
        ELSE Dbl(q.hi, q.lo, e)

RECURSIVE Pow2(_)
Pow2(k) == IF k = 0 THEN 1 ELSE 2 * Pow2(k - 1)

RECURSIVE BitLen(_)
BitLen(n) == IF n = 0 THEN 0 ELSE 1 + BitLen(n \div 2)

\* the double of a positive integer below 2^25, which is exact
FloatOfInt(n) == Dbl(n * Pow2(26 - BitLen(n)), 0, BitLen(n) - 1)

FloatLess(a, b) ==
    \/ a.e < b.e
    \/ a.e = b.e /\ a.hi < b.hi
    \/ a.e = b.e /\ a.hi = b.hi /\ a.lo < b.lo

WideShl(a, k) ==
    Wide(a.hi * Pow2(k) + ((a.lo * Pow2(k)) \div Two27),
         (a.lo * Pow2(k)) % Two27)
WideShr(a, k) ==
    Wide(a.hi \div Pow2(k),
         ((a.hi % Pow2(k)) * Two27 + a.lo) \div Pow2(k))

\* the double of the integer n * 2^(e - 52), n > 0 below 2^52: exact
RECURSIVE NormLeft(_, _)
NormLeft(n, e) ==
    IF n.hi >= Two27 \div 4 THEN Dbl(n.hi, n.lo, e)
    ELSE NormLeft(WideDouble(n), e - 1)

\* the double nearest to n * 2^(e - 52), ties to even, n > 0 below 2^57
RoundWide(n, e) ==
    IF n.hi < Two27 \div 2 THEN NormLeft(n, e)
    ELSE LET k == BitLen(n.hi) - 26
             q == WideShr(n, k)
             rest == n.lo % Pow2(k)
             half == Pow2(k - 1)
             up == rest > half \/ (rest = half /\ q.lo % 2 = 1)
             r == IF up THEN WideInc(q) ELSE q
         IN  IF r.hi = Two27 \div 2 THEN Dbl(r.hi \div 2, 0, e + k + 1)
             ELSE Dbl(r.hi, r.lo, e + k)

\* a - b of two doubles a > b > 0 whose exponents differ by at most 4,
\* rounded to nearest, ties to even
FloatSub(a, b) ==
    CASE a.e - b.e \in 0..4 ->
        RoundWide(WideSub(WideShl(Wide(a.hi, a.lo), a.e - b.e),
                          Wide(b.hi, b.lo)),
                  b.e)

NoneResult == [kind |-> "None", hi |-> 0, lo |-> 0, e |-> 0]
NumberResult(x) == [kind |-> "number", hi |-> x.hi, lo |-> x.lo, e |-> x.e]

calculate_doubling_time(d) ==
    IF Len(d) < 14 THEN NoneResult
    ELSE LET recent == tail(d, 14)
             start_cases == recent[1].Kasus
             end_cases == recent[Len(recent)].Kasus
         IN  IF start_cases <= 0 \/ end_cases <= start_cases THEN NoneResult
             ELSE IF ~GrowthRatePositive(start_cases, end_cases)
             THEN NoneResult
             ELSE NumberResult(
                      FloatDiv(LN2, LogOfGrowth(start_cases, end_cases)))

(***************************************************************************)
(* utils.py: trend, descriptive statistics, peak                           *)
(***************************************************************************)
\* the literal 0.1 = 0x1.999999999999ap-4
Tenth == Dbl(53687091, 26843546, -4)

\* |second_half - first_half| / first_half in doubles, for the means of a
\* column of non-negative integers with sums first_sum > 0 and second_sum
\* that differ; Series.mean() divides the sum by the count
ChangeSize(first_sum, second_sum, days) ==
    LET first_half == FloatDiv(FloatOfInt(first_sum), FloatOfInt(days))
    IN  IF second_sum = 0 THEN FloatDiv(first_half, first_half)
        ELSE LET second_half ==
                     FloatDiv(FloatOfInt(second_sum), FloatOfInt(days))
             IN  IF FloatLess(first_half, second_half)
                 THEN FloatDiv(FloatSub(second_half, first_half), first_half)
                 ELSE FloatDiv(FloatSub(first_half, second_half), first_half)

get_trend_direction(d, column, days) ==
    IF Len(d) < days * 2 THEN "stabil"
    ELSE LET recent == tail(d, days * 2)
             first_sum == SumOf(Column(head(recent, days), column), 1, days)
             second_sum == SumOf(Column(tail(recent, days), column), 1, days)
         IN  IF first_sum = 0 THEN "stabil"
             ELSE IF second_sum = first_sum THEN "stabil"
             ELSE IF ~FloatLess(Tenth,
                                ChangeSize(first_sum, second_sum, days))
             THEN "stabil"
             ELSE IF second_sum > first_sum THEN "naik" ELSE "turun"

Columns == {"Tanggal", "Kasus", "Kasus_Baru"}

RECURSIVE InsertSorted(_, _)
InsertSorted(s, x) ==
    IF s = <<>> THEN <<x>>
    ELSE IF x <= Head(s) THEN <<x>> \o s
    ELSE <<Head(s)>> \o InsertSorted(Tail(s), x)

RECURSIVE Sorted(_)
Sorted(col) ==
    IF col = <<>> THEN <<>> ELSE InsertSorted(Sorted(Tail(col)), Head(col))

\* Series.quantile(k / 4), linear interpolation between the order statistics
Quantile(col, k) ==
    LET s == Sorted(col)
        h == (Len(col) - 1) * k
        lo == (h \div 4) + 1
        rem == h % 4
    IN  IF rem = 0 THEN Rat(s[lo], 1)
        ELSE Rat(4 * s[lo] + rem * (s[lo + 1] - s[lo]), 4)

\* the square of Series.std() (ddof = 1), missing for a single value
Variance(col) ==
    LET n == Len(col)
        sq == [i \in 1..n |-> col[i] * col[i]]
        sm == SumOf(col, 1, n)
    IN  IF n < 2 THEN [isna |-> TRUE, v |-> Zero]
        ELSE [isna |-> FALSE,
              v |-> Rat(n * SumOf(sq, 1, n) - sm * sm, n * (n - 1))]

EmptyStatistics == [count |-> 0]

calculate_statistics(d, column) ==
    IF d = <<>> \/ column \notin Columns THEN EmptyStatistics
    ELSE LET series == Column(d, column)      \* dropna(): nothing is missing
             s == Sorted(series)
         IN  IF Len(series) = 0 THEN EmptyStatistics
             ELSE [count |-> Len(series), mean |-> mean(series),
                   std_squared |-> Variance(series), min |-> s[1],
                   max |-> s[Len(s)], median |-> Quantile(series, 2),
                   q1 |-> Quantile(series, 1), q3 |-> Quantile(series, 3),
                   sum |-> SumOf(series, 1, Len(series))]

NoPeak == [date |-> [isnone |-> TRUE, ts |-> 0], value |-> 0]

\* Series.idxmax(): the label of the first row holding the maximum
idxmax(d, column) ==
    LET i == CHOOSE i \in 1..Len(d) :
                 /\ \A j \in 1..Len(d) : d[j][column] <= d[i][column]
                 /\ \A j \in 1..(i - 1) : d[j][column] < d[i][column]
    IN  d[i].idx

\* variant: the row at the position numbered by the label
iloc(d, label) == d[(label % Len(d)) + 1]

\* df.loc[label]: the row carrying the label
loc(d, label) == d[CHOOSE i \in 1..Len(d) : d[i].idx = label]

get_peak_info(d, column) ==
    IF d = <<>> \/ column \notin Columns THEN NoPeak
    ELSE LET peak_row == loc(d, idxmax(d, column))
         IN  [date |-> [isnone |-> FALSE, ts |-> peak_row.Tanggal],
              value |-> peak_row[column]]

(***************************************************************************)
(* Initial states                                                          *)
(***************************************************************************)
NoSeries == [loaded |-> FALSE, df |-> <<>>]

NoMetricCall ==
    [op |-> "none", args |-> <<>>, input |-> <<>>, again |-> FALSE,
     status |-> "none", error |-> "", ret |-> <<>>]

NoProvinceCall == [status |-> "none", total_cases |-> 0, df |-> NoProvince]

NewSession ==
    [app_page |-> NoVal, nav_group |-> NoVal, pending |-> NoVal,
     synced |-> FALSE]

\* no script run yet
NoRun ==
    [ran |-> FALSE, raised |-> FALSE, before |-> NewSession,
     hydrated |-> NewSession, applied |-> NewSession, after |-> NewSession]

\* everything but the session state, before any call
InitProcess ==
    /\ rng = [seed |-> 1, pos |-> 0]
    /\ histData = NoneData
    /\ histRows = <<>>
    /\ hist = NoCall
    /\ sampleSeen = {}
    /\ statsData = NoneStats
    /\ stats = NoStats
    /\ prov = NoProvinceCall
    /\ provSeen = {}
    /\ otherDraws = 0
    /\ genCalls = [sample |-> 0, province |-> 0]
    /\ navTrace = NoRun
    /\ cacheHist = NoEntry(NoCall)
    /\ cacheStats = NoEntry(NoStats)
    /\ cacheProv = NoEntry(NoProvince)
    /\ rendered = NothingRendered
    /\ dfHeld = <<>>
    /\ dfLoaded = NoSeries
    /\ lastCall = NoMetricCall
    /\ firstCall = NoMetricCall
    /\ between = 0

InitData == InitProcess /\ session = NewSession

TimeoutHist == [err |-> "timeout", body |-> NoneData]
TimeoutStats == [err |-> "timeout", body |-> NoneStats]

Init ==
    /\ InitData
    /\ sortKind \in SortKinds
    /\ url = UrlNone
    /\ netHist \in HistOutcomes
    /\ netStats = TimeoutStats

(***************************************************************************)
(* Calls of the API client                                                 *)
(***************************************************************************)
GetHistoricalDf ==
    LET data == fetch_indonesia_historical(netHist)
        r == get_historical_df(data, rng, sortKind)
    IN  /\ histData' = data
        /\ histRows' = r.rows
        /\ hist' = CallOutcome(r)
        /\ rng' = r.rng
        /\ UNCHANGED <<metVars, netVars, sortKind, statsData, stats, prov, genVars,
                       appVars>>

GetCurrentStats ==
    LET data == fetch_indonesia_current(netStats)
    IN  /\ statsData' = data
        /\ stats' = get_current_stats(data)
        /\ UNCHANGED <<metVars, netVars, rng, sortKind, histData, histRows, hist, prov,
                       genVars, appVars>>

\* the response shapes of the historical endpoint, one of each
ShapeOutcomes ==
    {[err |-> e, body |-> NoneData] : e \in FetchErrors}
    \cup {[err |-> "", body |-> b] :
            b \in {NumberData, ListData, ObjectData(AbsentTimeline),
                   ObjectData(NotMapTimeline),
                   ObjectData(MapTimeline(NotMapSec, AbsentSec, AbsentSec)),
                   ObjectData(MapTimeline(MapSec(<<K_1_22_20>>, <<1>>),
                                          NotMapSec, AbsentSec)),
                   ObjectData(MapTimeline(MapSec(<<K_1_22_20, K_1_23_20>>, <<1, 2>>),
                                          AbsentSec,
                                          MapSec(<<K_1_22_20, K_1_23_20>>,
                                                 <<NonNumeric, NonNumeric>>))),
                   ObjectData(MapTimeline(MapSec(<<K_1_22_20, K_1_23_20>>, <<1, 2>>),
                                          AbsentSec, AbsentSec))}}

(***************************************************************************)
(* Direct calls of the generators, and other users of the global generator *)
(***************************************************************************)
TotalCases == {0, 1000, 6800000}

GetSampleHistoricalDf ==
    /\ genCalls.sample < MaxCalls
    /\ LET df == get_sample_historical_df(rng)
       IN  /\ hist' = [status |-> "returned", error |-> "", src |-> "sample",
                       df |-> df]
           /\ sampleSeen' = sampleSeen \cup {df}
    /\ rng' = RngAfterSample(rng)
    /\ genCalls' = [genCalls EXCEPT !.sample = @ + 1]
    /\ UNCHANGED <<metVars, netVars, sortKind, histData, histRows, statsData, stats,
                   prov, provSeen, otherDraws, appVars>>

GenerateProvinceSimulation ==
    \E total_cases \in TotalCases :
        /\ genCalls.province < MaxCalls
        /\ LET df == generate_province_simulation(total_cases, rng, sortKind)
           IN  /\ prov' = [status |-> "returned", total_cases |-> total_cases,
                           df |-> df]
               /\ provSeen' = provSeen
                              \cup {[total_cases |-> total_cases, df |-> df]}
        /\ rng' = RngAfterProvince(rng)
        /\ genCalls' = [genCalls EXCEPT !.province = @ + 1]
        /\ UNCHANGED <<metVars, netVars, sortKind, histData, histRows, hist,
                       sampleSeen, statsData, stats, otherDraws, appVars>>

\* any other np.random draw or reseeding in the process
OtherDraw ==
    /\ otherDraws < MaxOtherDraws
    /\ otherDraws' = otherDraws + 1
    /\ \/ rng' = Advance(rng, 1)
       \/ \E s \in EntropySeeds : rng' = np_random_seed(rng, s)
    /\ UNCHANGED <<metVars, netVars, sortKind, apiVars, sampleSeen, provSeen, genCalls,
                   appVars>>

(***************************************************************************)
(* One script run of app.main, and what the user does between runs         *)
(***************************************************************************)
\* observed: whether the stages of the run are recorded in navTrace
MainRun(observed) ==
    /\  LET ho == netHist
            so == netStats
            synced == sync_state_from_url(session, url)
            sess == Navigate(synced.sess)
            halaman == sess.app_page.v
            histCall == get_historical_df(fetch_indonesia_historical(ho),
                                          rng, sortKind)
            df_historical == IF cacheHist.has THEN cacheHist.val
                             ELSE CallOutcome(histCall)
            rng1 == IF cacheHist.has THEN rng ELSE histCall.rng
            current_stats ==
                IF cacheStats.has THEN cacheStats.val
                ELSE get_current_stats(fetch_indonesia_current(so))
            df_province ==
                IF cacheProv.has THEN cacheProv.val
                ELSE generate_province_simulation(current_stats.snap.cases,
                                                  rng1, sortKind)
            rng2 == IF cacheProv.has THEN rng1 ELSE RngAfterProvince(rng1)
            stages == [ran |-> TRUE, raised |-> synced.raised,
                       before |-> session, hydrated |-> synced.sess,
                       applied |-> ApplyPending(synced.sess), after |-> sess]
            trace == IF observed THEN stages ELSE navTrace
        IN  IF synced.raised
            THEN /\ session' = synced.sess
                 /\ navTrace' = IF observed
                                THEN [stages EXCEPT !.applied = synced.sess,
                                                    !.after = synced.sess]
                                ELSE navTrace
                 /\ rendered' = Exception("")
                 /\ UNCHANGED <<rng, cacheHist, cacheStats, cacheProv>>
            ELSE IF df_historical.status = "raised"
            THEN /\ session' = sess
                 /\ navTrace' = trace
                 /\ rendered' = Exception(halaman)
                 /\ UNCHANGED <<rng, cacheHist, cacheStats, cacheProv>>
            ELSE IF current_stats.status = "raised"
            THEN /\ session' = sess
                 /\ navTrace' = trace
                 /\ rendered' = Exception(halaman)
                 /\ cacheHist' = Entry(df_historical)
                 /\ rng' = rng1
                 /\ UNCHANGED <<cacheStats, cacheProv>>
            ELSE /\ session' = sess
                 /\ navTrace' = trace
                 /\ cacheHist' = Entry(df_historical)
                 /\ cacheStats' = Entry(current_stats)
                 /\ cacheProv' = Entry(df_province)
                 /\ rng' = rng2
                 /\ rendered' =
                        [status |-> "rendered", page |-> halaman,
                         notices |-> PageNotices(halaman, current_stats.snap),
                         uses |-> PageUses(halaman),
                         hist_src |-> df_historical.src,
                         snap_fallback |-> current_stats.snap.is_fallback]
    /\ UNCHANGED <<metVars, netVars, sortKind, apiVars, genVars, url>>

Main == MainRun(FALSE)

\* the same run, with the session state at each of its stages recorded
MainObserved == MainRun(TRUE)

\* the sidebar widgets write their keys
UserSelectGroup ==
    \E i \in 1..Len(Groups) :
        /\ session.nav_group.has
        /\ session' = [session EXCEPT !.nav_group = Str(Groups[i])]
        /\ UNCHANGED <<metVars, netVars, rng, sortKind, apiVars, genVars, url, cacheHist,
                       cacheStats, cacheProv, rendered, navTrace>>

UserSelectPage ==
    /\ InOptions(session.nav_group, Groups)
    /\ \E p \in Range(pages_by_group[session.nav_group.v]) :
           session' = [session EXCEPT !.app_page = Str(p)]
    /\ UNCHANGED <<metVars, netVars, rng, sortKind, apiVars, genVars, url, cacheHist,
                   cacheStats, cacheProv, rendered, navTrace>>

\* the feature cards of the main dashboard
NavigationButtons == {"Visualisasi COVID-19", "Analisis GIS", "Statistik Data"}

RequestNavigation ==
    /\ rendered.status = "rendered"
    /\ rendered.page = "Dashboard Utama"
    /\ \E p \in NavigationButtons :
           session' = request_navigation(session, Str(p))
    /\ UNCHANGED <<metVars, netVars, rng, sortKind, apiVars, genVars, url, cacheHist,
                   cacheStats, cacheProv, rendered, navTrace>>

\* values a caller can hand to ui.request_navigation
PendingValues ==
    {Str("Analisis GIS"), Str("Kalkulator Risiko"), Padded("Statistik Data"),
     Str(""), Str("Halaman Lain"), NotStr}

\* a page calls ui.request_navigation with any value, then st.rerun()
RequestNavigationTo ==
    /\ rendered.status = "rendered"
    /\ \E v \in PendingValues : session' = request_navigation(session, v)
    /\ UNCHANGED <<metVars, netVars, rng, sortKind, apiVars, genVars, url,
                   cacheHist, cacheStats, cacheProv, rendered, navTrace>>

\* a cache entry outlives its ttl
CacheExpire ==
    /\ \/ cacheHist.has /\ cacheHist' = NoEntry(NoCall)
          /\ UNCHANGED <<cacheStats, cacheProv>>
       \/ cacheStats.has /\ cacheStats' = NoEntry(NoStats)
          /\ UNCHANGED <<cacheHist, cacheProv>>
       \/ cacheProv.has /\ cacheProv' = NoEntry(NoProvince)
          /\ UNCHANGED <<cacheHist, cacheStats>>
    /\ UNCHANGED <<metVars, netVars, rng, sortKind, apiVars, genVars, url, session,
                   rendered, navTrace>>

(***************************************************************************)
(* Calls of the metrics module                                             *)
(***************************************************************************)
\* a page loads its series once
LoadSeries ==
    /\ ~dfLoaded.loaded
    /\ \E s \in MetricSeries :
          /\ dfHeld' = s
          /\ dfLoaded' = [loaded |-> TRUE, df |-> s]
    /\ UNCHANGED <<lastCall, firstCall, between>>
    /\ UNCHANGED <<netVars, rng, sortKind, apiVars, genVars, appVars>>

Comparing == firstCall.op # "none"

\* the arguments of the calls that are repeated to compare their results
ProbeArgs(op) ==
    CASE op = "filter_by_date_range" -> {<<DateArg(1), DateArg(MaxLen - 1)>>}
      [] op = "calculate_rolling_average" -> {<<"Kasus_Baru", 2>>}
      [] op = "calculate_r0_estimate" -> {<<1>>}
      [] op = "get_trend_direction" -> {<<"Kasus_Baru", 1>>}
      [] op = "calculate_cfr" -> {<<25, 1000>>}
      [] op = "get_peak_info" -> {<<"Kasus_Baru">>}
      [] OTHER -> {<<>>}

ArgsOf(op, all) == IF Comparing THEN all \cap ProbeArgs(op) ELSE all

\* the record of one call: its operation, arguments, input frame and outcome
MetricCall(op, args, input, out) ==
    [op |-> op, args |-> args, input |-> input, again |-> FALSE,
     status |-> out.status, error |-> out.error, ret |-> out.ret]

\* two calls of the same operation with the same parameters (the series
\* operations are all called on the held series)
SameCall(a, b) == a.op = b.op /\ a.args = b.args

\* one call on the held series, which the call leaves as `after`
Called(call, after) ==
    /\ dfLoaded.loaded
    /\ lastCall' = call
    /\ dfHeld' = after
    /\ between' = IF Comparing /\ ~SameCall(firstCall, call) THEN 1
                  ELSE between
    /\ UNCHANGED <<dfLoaded, firstCall>>
    /\ UNCHANGED <<netVars, rng, sortKind, apiVars, genVars, appVars>>

FilterByDateRange ==
    \E a \in ArgsOf("filter_by_date_range", DateArgs \X DateArgs) :
        Called(MetricCall("filter_by_date_range", a, dfHeld,
                          Returned(filter_by_date_range(dfHeld, a[1], a[2]))),
               FilterLeaves(dfHeld, a[1], a[2]))

\* the page filters the frame it got from the filter with the same bounds
FilterAgain ==
    /\ lastCall.op = "filter_by_date_range"
    /\ ~lastCall.again
    /\ ~Comparing
    /\ LET a == lastCall.args
           call == MetricCall("filter_by_date_range", a, lastCall.ret,
                       Returned(filter_by_date_range(lastCall.ret, a[1], a[2])))
       IN  Called([call EXCEPT !.again = TRUE], dfHeld)

Windows == {-1, 0, 1, 2, 7}

CalculateRollingAverage ==
    \E a \in ArgsOf("calculate_rolling_average", {"Kasus_Baru"} \X Windows) :
        Called(MetricCall("calculate_rolling_average", a, dfHeld,
                          calculate_rolling_average(dfHeld, a[1], a[2])),
               RollingLeaves(dfHeld, a[1], a[2]))

GenerationTimes == {1, 2}

CalculateR0Estimate ==
    \E a \in ArgsOf("calculate_r0_estimate", {<<g>> : g \in GenerationTimes}) :
        Called(MetricCall("calculate_r0_estimate", a, dfHeld,
                          Returned(calculate_r0_estimate(dfHeld, a[1]))),
               dfHeld)

CalculateDoublingTime ==
    Called(MetricCall("calculate_doubling_time", <<>>, dfHeld,
                      Returned(calculate_doubling_time(dfHeld))),
           dfHeld)

TrendDays == {1, 2, 3}

GetTrendDirection ==
    \E a \in ArgsOf("get_trend_direction", {"Kasus_Baru"} \X TrendDays) :
        Called(MetricCall("get_trend_direction", a, dfHeld,
                          Returned(get_trend_direction(dfHeld, a[1], a[2]))),
               dfHeld)

CalculateStatistics ==
    Called(MetricCall("calculate_statistics", <<>>, dfHeld,
                      Returned(calculate_statistics(dfHeld, "Kasus_Baru"))),
           dfHeld)

\* the columns asked for: two of the frame and one it does not have
PeakColumns == {"Kasus_Baru", "Kasus", "Vaksinasi"}

GetPeakInfo ==
    \E a \in ArgsOf("get_peak_info", {<<c>> : c \in PeakColumns}) :
        Called(MetricCall("get_peak_info", a, dfHeld,
                          Returned(get_peak_info(dfHeld, a[1]))),
               dfHeld)

\* the peak of the frame that filter_by_date_range has just returned
GetPeakInfoOfFiltered ==
    /\ lastCall.op = "filter_by_date_range"
    /\ lastCall.status = "returned"
    /\ ~Comparing
    /\ \E c \in PeakColumns :
          LET call == MetricCall("get_peak_info", <<c>>, lastCall.ret,
                                 Returned(get_peak_info(lastCall.ret, c)))
          IN  Called([call EXCEPT !.again = TRUE], dfHeld)

RateArgs == {0, 25} \X {0, 1000}

CalculateCfr ==
    \E a \in ArgsOf("calculate_cfr", RateArgs) :
        Called(MetricCall("calculate_cfr", a, <<>>,
                          Returned(calculate_cfr(a[1], a[2]))), dfHeld)

CalculateRecoveryRate ==
    \E a \in ArgsOf("calculate_recovery_rate", RateArgs) :
        Called(MetricCall("calculate_recovery_rate", a, <<>>,
                          Returned(calculate_recovery_rate(a[1], a[2]))),
               dfHeld)

CalculateActiveRate ==
    \E a \in ArgsOf("calculate_active_rate", RateArgs) :
        Called(MetricCall("calculate_active_rate", a, <<>>,
                          Returned(calculate_active_rate(a[1], a[2]))),
               dfHeld)

\* values of the R0 slider of kalkulator_risiko.py (0.5 to 10.0 by 0.1), in
\* tenths: its ends, its presets 2.5, 6.0 and 10.0, and the values around 1
R0Tenths == {5, 8, 9, 10, 11, 25, 60, 100}
R0Values == {Rat(t, 10) : t \in R0Tenths}

CalculateHerdImmunityThreshold ==
    \E a \in ArgsOf("calculate_herd_immunity_threshold",
                    {<<r>> : r \in R0Values}) :
        Called(MetricCall("calculate_herd_immunity_threshold", a, <<>>,
                          Returned(calculate_herd_immunity_threshold(a[1]))),
               dfHeld)

\* the caller keeps the outcome of a call to compare a later one with it
KeepCall ==
    /\ ~Comparing
    /\ lastCall.op # "none"
    /\ ~lastCall.again
    /\ lastCall.args \in ProbeArgs(lastCall.op)
    /\ firstCall' = lastCall
    /\ UNCHANGED <<dfHeld, dfLoaded, lastCall, between>>
    /\ UNCHANGED <<netVars, rng, sortKind, apiVars, genVars, appVars>>

(***************************************************************************)
(* Specifications                                                          *)
(***************************************************************************)
\* ingestion of the historical timeline
Next == GetHistoricalDf
Spec == Init /\ [][Next]_vars

\* the snapshot of current totals
InitStats ==
    /\ InitData
    /\ sortKind \in SortKinds
    /\ url = UrlNone
    /\ netHist = TimeoutHist
    /\ netStats \in StatsOutcomes
NextStats == GetCurrentStats
SpecStats == InitStats /\ [][NextStats]_vars

\* both boundary functions, over every shape of response
StatsShapeOutcomes ==
    {[err |-> e, body |-> NoneStats] : e \in FetchErrors}
    \cup {[err |-> "", body |-> b] :
            b \in {StatsShape("number"), StatsShape("list"),
                   StatsShape("object")}
                  \cup {[StatsShape("object") EXCEPT !.cases = Present(MaxCount),
                                                     !.updated = u] :
                           u \in UpdatedKinds}}

InitApi ==
    /\ InitData
    /\ sortKind \in SortKinds
    /\ url = UrlNone
    /\ netHist \in ShapeOutcomes
    /\ netStats \in StatsShapeOutcomes
NextApi == GetHistoricalDf \/ GetCurrentStats
SpecApi == InitApi /\ [][NextApi]_vars

\* the seeded generators among other users of the global generator
InitGen ==
    /\ InitData
    /\ sortKind \in SortKinds
    /\ url = UrlNone
    /\ netHist = TimeoutHist
    /\ netStats = TimeoutStats
NextGen == GetSampleHistoricalDf \/ GenerateProvinceSimulation \/ OtherDraw
SpecGen == InitGen /\ [][NextGen]_vars

\* the application
InitApp ==
    /\ InitData
    /\ sortKind = "stable"
    /\ url = UrlNone
    /\ netHist \in AppHistOutcomes
    /\ netStats \in AppStatsOutcomes
NextApp ==
    Main \/ UserSelectGroup \/ UserSelectPage \/ RequestNavigation
    \/ CacheExpire
SpecApp == InitApp /\ [][NextApp]_vars

\* navigation, from any session state and any deep link
SessionPages == {NoVal, NotStr, Str("Trend Vaksinasi"), Str("Halaman Lain")}
SessionGroups == {NoVal, NotStr, Str("Vaksinasi"), Str("Grup Lain")}
NavUrls ==
    {UrlNone, UrlGarbage, UrlNumber, UrlObject(NotStr),
     UrlObject(Str("Halaman Lain")), UrlObject(Str("Kalkulator Risiko"))}
InitNav ==
    /\ InitProcess
    /\ session \in [app_page : SessionPages, nav_group : SessionGroups,
                    pending : {NoVal}, synced : BOOLEAN]
    /\ sortKind = "stable"
    /\ url \in NavUrls
    /\ netHist = TimeoutHist
    /\ netStats = TimeoutStats
NextNav == MainObserved \/ UserSelectGroup \/ RequestNavigationTo
SpecNav == InitNav /\ [][NextNav]_vars

\* the metrics module, called on one loaded series
InitMetrics ==
    /\ InitData
    /\ sortKind = "stable"
    /\ url = UrlNone
    /\ netHist = TimeoutHist
    /\ netStats = TimeoutStats
NextMetrics ==
    \/ LoadSeries \/ FilterByDateRange \/ FilterAgain
    \/ CalculateRollingAverage \/ CalculateR0Estimate \/ CalculateDoublingTime
    \/ GetTrendDirection \/ CalculateStatistics \/ GetPeakInfo
    \/ GetPeakInfoOfFiltered
    \/ CalculateCfr \/ CalculateRecoveryRate \/ CalculateActiveRate
    \/ CalculateHerdImmunityThreshold
    \/ KeepCall
SpecMetrics == InitMetrics /\ [][NextMetrics]_vars

(***************************************************************************)
(* Properties of the ingested series                                       *)
(***************************************************************************)
LiveSeries == hist.status = "returned" /\ hist.src = "live"

DeltaColumns ==
    {<<"Kasus", "Kasus_Baru">>, <<"Kematian", "Kematian_Baru">>,
     <<"Sembuh", "Sembuh_Baru">>}

\* C1: every row of a series built from a live timeline has Kasus_Baru,
\* Kematian_Baru and Sembuh_Baru >= 0, whatever the cumulative values do.
C1_DeltasNeverNegative ==
    LiveSeries =>
        \A i \in 1..Len(hist.df) :
            /\ hist.df[i].Kasus_Baru >= 0
            /\ hist.df[i].Kematian_Baru >= 0
            /\ hist.df[i].Sembuh_Baru >= 0

\* a live series in which one cumulative column is revised downward
C1_Witness ==
    /\ LiveSeries
    /\ \E i \in 2..Len(hist.df) :
          \/ hist.df[i].Kasus < hist.df[i - 1].Kasus
          \/ hist.df[i].Kematian < hist.df[i - 1].Kematian

\* C2: in a live series the first row has all three deltas 0 and every later
\* row has delta = max(0, cumulative - cumulative of the row before it); when
\* the cumulative column does not decrease the delta is the exact difference.
C2_DeltaDefinition ==
    LiveSeries =>
        \A c \in DeltaColumns :
            /\ hist.df[1][c[2]] = 0
            /\ \A i \in 2..Len(hist.df) :
                  /\ hist.df[i][c[2]]
                        = Max(0, hist.df[i][c[1]] - hist.df[i - 1][c[1]])
                  /\ hist.df[i][c[1]] >= hist.df[i - 1][c[1]]
                        => hist.df[i][c[2]]
                             = hist.df[i][c[1]] - hist.df[i - 1][c[1]]

\* a live series of two rows whose first cumulative count is positive, with
\* one column rising and another falling
C2_Witness ==
    /\ LiveSeries
    /\ Len(hist.df) >= 2
    /\ hist.df[1].Kasus > 0
    /\ hist.df[2].Kasus > hist.df[1].Kasus
    /\ hist.df[2].Kematian < hist.df[1].Kematian

\* C3: every returned series is sorted ascending by Tanggal and holds no two
\* rows with the same date, also when two date keys parse to the same day.
C3_SortedUniqueDates ==
    hist.status = "returned" =>
        \A i, j \in 1..Len(hist.df) :
            i < j => DateLess(hist.df[i].Tanggal, hist.df[j].Tanggal)

\* the parse loop ran over the keys of a "cases" mapping
ParsedTimeline ==
    /\ hist.status # "none"
    /\ histData.kind = "object"
    /\ histData.timeline.kind = "map"
    /\ histData.timeline.cases.kind = "map"

CaseKeys == histData.timeline.cases.keys

ParsingKeys == {i \in 1..Len(CaseKeys) : strptime(CaseKeys[i]).ok}

\* C4 as stated: date keys that do not parse are dropped and every date key
\* that does parse yields exactly one row of the result.
C4_EveryParsedDateYieldsRow ==
    (ParsedTimeline /\ hist.status = "returned" /\ ParsingKeys # {}) =>
        /\ hist.src = "live"
        /\ Len(hist.df) = Cardinality(ParsingKeys)

\* the keys whose row the try block completes
ReadableKeys ==
    {i \in ParsingKeys :
        /\ histData.timeline.deaths.kind # "notmap"
        /\ histData.timeline.recovered.kind # "notmap"}

\* C4 (amended): a date key is dropped, without raising, when it does not
\* parse or when the "deaths" or "recovered" entry of the timeline is not a
\* mapping; every other date key yields exactly one parsed row with its date
\* and its count, and those rows are the rows of a live result.
C4_RowsOfReadableKeys ==
    ParsedTimeline =>
        /\ Len(histRows) = Cardinality(ReadableKeys)
        /\ \A i \in ReadableKeys :
              \E j \in 1..Len(histRows) :
                  /\ histRows[j].Tanggal = strptime(CaseKeys[i])
                  /\ histRows[j].Kasus = histData.timeline.cases.vals[i]
        /\ \A i \in 1..Len(CaseKeys) :
              i \notin ParsingKeys =>
                  Len(histRows) < Len(CaseKeys)
        /\ LiveSeries => Len(hist.df) = Len(histRows)

\* a timeline with a key of the wrong format, a key that is no calendar date
\* or a good key, of which a row survives
C4_Witness ==
    /\ ParsedTimeline
    /\ LiveSeries
    /\ ParsingKeys # {}
    /\ \E i \in 1..Len(CaseKeys) : i \notin ParsingKeys

\* the cases in which no row survives parsing
NoRowSurvives ==
    \/ histData.kind = "none"
    \/ histData.kind = "object" /\ histData.timeline.kind = "absent"
    \/ /\ histData.kind = "object"
       /\ histData.timeline.kind = "map"
       /\ histData.timeline.cases.kind \in {"absent", "map"}
       /\ \A i \in 1..Len(CaseKeys) : ~strptime(CaseKeys[i]).ok

\* C5: when no row survives parsing, get_historical_df returns the fallback
\* series of exactly 365 rows; it never returns an empty series.
C5_FallbackWhenNoRows ==
    /\ (hist.status # "none" /\ NoRowSurvives) =>
          /\ hist.status = "returned"
          /\ hist.src = "sample"
          /\ Len(hist.df) = 365
    /\ hist.status = "returned" => Len(hist.df) >= 1

\* a timeline all of whose date keys fail to parse
C5_Witness ==
    /\ hist.status = "returned"
    /\ histData.kind = "object"
    /\ histData.timeline.kind = "map"
    /\ histData.timeline.cases.kind = "map"
    /\ Len(CaseKeys) >= 1
    /\ NoRowSurvives

\* C9: the fallback series obeys the delta definition: the first row has
\* Kasus_Baru = Kematian_Baru = 0 and every later row has Kasus_Baru =
\* max(0, Kasus - previous Kasus), Kematian_Baru = max(0, Kematian - previous).
C9_SampleDeltaDefinition ==
    (hist.status = "returned" /\ hist.src = "sample") =>
        /\ hist.df[1].Kasus_Baru = 0
        /\ hist.df[1].Kematian_Baru = 0
        /\ \A i \in 2..Len(hist.df) :
              /\ hist.df[i].Kasus_Baru
                    = Max(0, hist.df[i].Kasus - hist.df[i - 1].Kasus)
              /\ hist.df[i].Kematian_Baru
                    = Max(0, hist.df[i].Kematian - hist.df[i - 1].Kematian)

(***************************************************************************)
(* Properties of the boundary and of the snapshot                          *)
(***************************************************************************)
\* C6: whatever the fetch meets, get_historical_df and get_current_stats
\* return a value and never raise.
C6_NeverRaises == hist.status # "raised" /\ stats.status # "raised"

\* C7: a returned snapshot has is_fallback = TRUE exactly when
\* fetch_indonesia_current returned None, and FALSE when its values were
\* read from the response.
C7_IsFallbackFlag ==
    stats.status = "returned" =>
        (stats.snap.is_fallback <=> statsData.kind = "none")

\* snapshots of both kinds are returned
C7_Witness ==
    /\ stats.status = "returned"
    /\ statsData.kind = "object"
    /\ statsData.cases.has
    /\ ~stats.snap.is_fallback

(***************************************************************************)
(* Properties of the rendered page                                         *)
(***************************************************************************)
FallbackInUse ==
    \/ "stats" \in rendered.uses /\ rendered.snap_fallback
    \/ "historical" \in rendered.uses /\ rendered.hist_src = "sample"
    \/ "province" \in rendered.uses

\* C8: a rendered page that presents fallback or simulated data displays a
\* notice.
C8_NoticeWhenFallback ==
    (rendered.status = "rendered" /\ FallbackInUse) => rendered.notices # {}

(***************************************************************************)
(* Properties of the generators                                            *)
(***************************************************************************)
\* C10: all calls of _get_sample_historical_df return the same 365-row
\* series and all calls of generate_province_simulation with the same
\* total_cases return the same table, whatever was drawn in between.
C10_GeneratorsDeterministic ==
    /\ Cardinality(sampleSeen) <= 1
    /\ \A df \in sampleSeen : Len(df) = 365
    /\ \A x, y \in provSeen : x.total_cases = y.total_cases => x.df = y.df

\* each generator was called repeatedly, with the same argument, among other
\* draws
C10_Witness ==
    /\ genCalls.sample >= 2
    /\ genCalls.province >= 2
    /\ Cardinality(provSeen) = 1
    /\ otherDraws >= 1
    /\ Cardinality(sampleSeen) = 1

(***************************************************************************)
(* Properties of the metrics module                                        *)
(***************************************************************************)
IsCall(op) == lastCall.op = op /\ lastCall.status # "none"

\* start <= d <= end for the date d of a row, an omitted bound not binding
WithinBounds(row, start_date, end_date) ==
    /\ start_date.kind = "date" => row.Tanggal >= 2 * start_date.v
    /\ start_date.kind = "datetime" => row.Tanggal >= start_date.v
    /\ end_date.kind = "date" => row.Tanggal <= 2 * end_date.v
    /\ end_date.kind = "datetime" => row.Tanggal <= end_date.v

\* C11: filter_by_date_range returns, without raising, exactly the rows of
\* its input whose date lies within the given bounds, in their original
\* order; it returns an empty series when no row qualifies.
C11_FilterReturnsRowsInRange ==
    IsCall("filter_by_date_range") =>
        LET a == lastCall.args
            in == lastCall.input
            out == lastCall.ret
            qualify == {i \in 1..Len(in) : WithinBounds(in[i], a[1], a[2])}
        IN  /\ lastCall.status = "returned"
            /\ Len(out) = Cardinality(qualify)
            /\ \A i \in qualify : \E j \in 1..Len(out) : out[j] = in[i]
            /\ \A j, k \in 1..Len(out) : j < k => out[j].idx < out[k].idx
            /\ qualify = {} => out = <<>>

\* both bounds given, some rows kept and some dropped
C11_Witness ==
    /\ IsCall("filter_by_date_range")
    /\ lastCall.args[1].kind # "None"
    /\ lastCall.args[2].kind # "None"
    /\ Len(lastCall.ret) >= 1
    /\ Len(lastCall.ret) < Len(lastCall.input)

\* Timestamp.date() of the smallest and of the largest date of a series
MinDate(d) ==
    (CHOOSE t \in {d[i].Tanggal : i \in 1..Len(d)} :
        \A i \in 1..Len(d) : t <= d[i].Tanggal) \div 2
MaxDate(d) ==
    (CHOOSE t \in {d[i].Tanggal : i \in 1..Len(d)} :
        \A i \in 1..Len(d) : t >= d[i].Tanggal) \div 2

\* C12: filtering a non-empty series to its own date range returns it row
\* for row, and filtering a result again with the same bounds returns the
\* same rows.
C12_FilterRoundTrip ==
    IsCall("filter_by_date_range") =>
        /\ (/\ lastCall.input # <<>>
            /\ lastCall.args = <<DateArg(MinDate(lastCall.input)),
                                 DateArg(MaxDate(lastCall.input))>>)
              => lastCall.ret = lastCall.input
        /\ lastCall.again => lastCall.ret = lastCall.input

\* a series over several dates filtered to its own range, twice
C12_Witness ==
    /\ IsCall("filter_by_date_range")
    /\ lastCall.again
    /\ Len(lastCall.input) >= 2
    /\ MinDate(lastCall.input) < MaxDate(lastCall.input)
    /\ lastCall.input = dfLoaded.df
    /\ lastCall.args = <<DateArg(MinDate(lastCall.input)),
                         DateArg(MaxDate(lastCall.input))>>

RateOps ==
    {"calculate_cfr", "calculate_recovery_rate", "calculate_active_rate"}

\* C15: each of the three rates is 0.0 when cases = 0 and numerator / cases
\* * 100 otherwise; calculate_cfr(0, 0) = 0.0, calculate_cfr(25, 1000) = 2.5.
C15_Rates ==
    (lastCall.op \in RateOps) =>
        LET num == lastCall.args[1]
            cases == lastCall.args[2]
            r == lastCall.ret
        IN  /\ lastCall.status = "returned"
            /\ r.d > 0
            /\ cases = 0 => r.n = 0 /\ r.d = 1
            /\ cases # 0 => r.n * cases = r.d * num * 100
            /\ (lastCall.op = "calculate_cfr" /\ num = 25 /\ cases = 1000)
                  => r = [n |-> 5, d |-> 2]

\* calculate_cfr(25, 1000)
C15_Witness ==
    /\ lastCall.op = "calculate_cfr"
    /\ lastCall.args = <<25, 1000>>
    /\ lastCall.ret.n = 5

\* C16: for a window W >= 1 calculate_rolling_average returns one value per
\* row, each the mean of the values of the rows max(0, i-W+1)..i.
C16_RollingMean ==
    (IsCall("calculate_rolling_average") /\ lastCall.args[2] >= 1) =>
        LET w == lastCall.args[2]
            in == lastCall.input
            out == lastCall.ret
        IN  /\ lastCall.status = "returned"
            /\ Len(out) = Len(in)
            /\ \A i \in 1..Len(in) :
                  LET rows == {j \in 1..i : j >= i - w + 1}
                      total == SumOf([j \in 1..i |->
                                         IF j \in rows THEN in[j].Kasus_Baru
                                         ELSE 0], 1, i)
                  IN  /\ out[i].d > 0
                      /\ out[i].n * Cardinality(rows) = out[i].d * total

\* a window of 7 on a series of 3 rows that do not all hold the same value
C16_Witness ==
    /\ IsCall("calculate_rolling_average")
    /\ lastCall.args[2] = 7
    /\ Len(lastCall.input) = 3
    /\ lastCall.input[2].Kasus_Baru # lastCall.input[3].Kasus_Baru
    /\ lastCall.status = "returned"

\* C17 as stated: a window below 1 fails with InvalidWindowError.
C17_InvalidWindowError ==
    (IsCall("calculate_rolling_average") /\ lastCall.args[2] < 1) =>
        /\ lastCall.status = "raised"
        /\ lastCall.error = "InvalidWindowError"

\* C17 (amended): a window below 1 makes calculate_rolling_average fail with
\* the ValueError of pandas' window validation; no series is returned and
\* the window is not clamped.
C17_InvalidWindowRejected ==
    (IsCall("calculate_rolling_average") /\ lastCall.args[2] < 1) =>
        /\ lastCall.status = "raised"
        /\ lastCall.error = "ValueError"
        /\ lastCall.ret = <<>>

\* a window of 0 on a series with rows
C17_Witness ==
    /\ IsCall("calculate_rolling_average")
    /\ lastCall.args[2] = 0
    /\ lastCall.input # <<>>
    /\ lastCall.status = "raised"

\* the sum of a column over the rows lo..hi of a series
SumRows(d, column, lo, hi) ==
    SumOf([j \in 1..Len(d) |-> IF j >= lo /\ j <= hi THEN d[j][column]
                                ELSE 0], 1, Len(d))

\* C18: for a generation time G >= 1 calculate_r0_estimate returns exactly 1
\* when the series has fewer than 2G rows or the mean of the first G of its
\* last 2G rows is not positive; otherwise the mean of the last G rows
\* divided by the mean of the G rows before them, clamped to [0.1, 10].
C18_R0Estimate ==
    (IsCall("calculate_r0_estimate") /\ lastCall.args[1] >= 1) =>
        LET g == lastCall.args[1]
            in == lastCall.input
            n == Len(in)
            r == lastCall.ret
            prev == SumRows(in, "Kasus_Baru", n - 2 * g + 1, n - g)
            cur == SumRows(in, "Kasus_Baru", n - g + 1, n)
        IN  /\ lastCall.status = "returned"
            /\ r.d > 0
            /\ (n < 2 * g \/ prev <= 0) => r = One
            /\ (n >= 2 * g /\ prev > 0) =>
                  /\ 10 * cur < prev => r = Rat(1, 10)
                  /\ cur > 10 * prev => r = Rat(10, 1)
                  /\ (10 * cur >= prev /\ cur <= 10 * prev) =>
                        r.n * prev = r.d * cur

\* an estimate above 10, which is clamped to 10
C18_Witness ==
    /\ IsCall("calculate_r0_estimate")
    /\ Len(lastCall.input) >= 2 * lastCall.args[1]
    /\ lastCall.ret = Rat(10, 1)
    /\ SumRows(lastCall.input, "Kasus_Baru",
               Len(lastCall.input) - lastCall.args[1] + 1,
               Len(lastCall.input))
          > 10 * SumRows(lastCall.input, "Kasus_Baru",
                         Len(lastCall.input) - 2 * lastCall.args[1] + 1,
                         Len(lastCall.input) - lastCall.args[1])

\* C19: calculate_doubling_time returns None when the series has fewer than
\* 14 rows, or the first of its last 14 rows holds no positive count, or the
\* last row holds no more than that first one; otherwise a positive number.
C19_DoublingTimeDefined ==
    IsCall("calculate_doubling_time") =>
        LET in == lastCall.input
            n == Len(in)
            r == lastCall.ret
            undefined == \/ n < 14
                         \/ in[n - 13].Kasus <= 0
                         \/ in[n].Kasus <= in[n - 13].Kasus
        IN  /\ lastCall.status = "returned"
            /\ undefined => r = NoneResult
            /\ ~undefined => r.kind = "number" /\ r.hi > 0

\* a doubling time computed from the last 14 of 15 rows
C19_Witness ==
    /\ IsCall("calculate_doubling_time")
    /\ Len(lastCall.input) = 15
    /\ lastCall.ret.kind = "number"

\* the series of C20: 14 rows whose counts go from 1000 to 2000
DoublesInFourteen ==
    /\ IsCall("calculate_doubling_time")
    /\ Len(lastCall.input) = 14
    /\ lastCall.input[1].Kasus = 1000
    /\ lastCall.input[14].Kasus = 2000

\* 14.0 as a double: 1.75 * 2^3
Fourteen == NumberResult(Dbl(58720256, 0, 3))

\* C20 as stated: on 14 rows going from 1000 to 2000 the doubling time is
\* exactly 14.0.
C20_ExactlyFourteen == DoublesInFourteen => lastCall.ret = Fourteen

\* C20 (amended): on 14 rows going from 1000 to 2000 the doubling time is
\* 14.0 up to the rounding of the floating-point steps: a double within 4
\* units in the last place of 14.0.
C20_FourteenUpToRounding ==
    DoublesInFourteen =>
        LET r == lastCall.ret
        IN  /\ r.kind = "number"
            /\ r.e = 3
            /\ \/ (r.hi = Fourteen.hi /\ r.lo <= 4)
               \/ (r.hi = Fourteen.hi - 1 /\ r.lo >= Two27 - 4)

\* the doubling time of that series, which is 13.999999999999995
C20_Witness ==
    /\ DoublesInFourteen
    /\ lastCall.ret = NumberResult(Dbl(58720255, 134217725, 3))

\* C21: calculate_herd_immunity_threshold returns 0.0 for r0 <= 1 and
\* (1 - 1/r0) * 100 for r0 > 1; the result lies in [0, 100) and does not
\* decrease when r0 grows; 2.5 gives 60 and 0.8 gives 0.0.
C21_HerdImmunityThreshold ==
    IsCall("calculate_herd_immunity_threshold") =>
        LET r0 == lastCall.args[1]
            h == lastCall.ret
        IN  /\ lastCall.status = "returned"
            /\ h.d > 0
            /\ r0.n <= r0.d => h = Zero
            \* h = (1 - 1/r0) * 100 = 100 * (r0.n - r0.d) / r0.n
            /\ r0.n > r0.d => h.n * r0.n = h.d * 100 * (r0.n - r0.d)
            /\ h.n >= 0 /\ h.n < 100 * h.d
            /\ \A smaller \in R0Values :
                  RatLeq(smaller, r0) =>
                      RatLeq(calculate_herd_immunity_threshold(smaller), h)
            /\ r0 = Rat(25, 10) => h = Rat(60, 1)
            /\ r0 = Rat(8, 10) => h = Zero

\* the threshold of r0 = 2.5
C21_Witness ==
    /\ IsCall("calculate_herd_immunity_threshold")
    /\ lastCall.args[1] = Rat(25, 10)
    /\ lastCall.ret = Rat(60, 1)

\* C22 as stated: get_trend_direction returns "stabil" when the series has
\* fewer than 2D rows or the mean of the first D of its last 2D values is 0;
\* otherwise "naik" iff the change of the mean exceeds +10%, "turun" iff it
\* is below -10%, and "stabil" otherwise, also at exactly +10% and -10%.
C22_TrendDirection ==
    IsCall("get_trend_direction") =>
        LET column == lastCall.args[1]
            days == lastCall.args[2]
            in == lastCall.input
            n == Len(in)
            first == SumRows(in, column, n - 2 * days + 1, n - days)
            second == SumRows(in, column, n - days + 1, n)
            \* change = (second / days - first / days) / (first / days)
            expected ==
                IF n < 2 * days \/ first = 0 THEN "stabil"
                ELSE IF 10 * (second - first) > first THEN "naik"
                ELSE IF 10 * (second - first) < -first THEN "turun"
                ELSE "stabil"
        IN  /\ lastCall.status = "returned"
            /\ lastCall.ret = expected

\* C23: get_peak_info returns {date: None, value: 0} for an empty frame or
\* a column the frame lacks; otherwise the value is the maximum of the
\* column and the date is the date of a row holding it, also for a frame
\* returned by filter_by_date_range, whose labels need not start at 0.
C23_PeakInfo ==
    IsCall("get_peak_info") =>
        LET column == lastCall.args[1]
            in == lastCall.input
            peak == lastCall.ret
        IN  /\ lastCall.status = "returned"
            /\ (in = <<>> \/ column \notin Columns) => peak = NoPeak
            /\ (in # <<>> /\ column \in Columns) =>
                  /\ \A j \in 1..Len(in) : in[j][column] <= peak.value
                  /\ ~peak.date.isnone
                  /\ \E j \in 1..Len(in) :
                        /\ in[j][column] = peak.value
                        /\ in[j].Tanggal = peak.date.ts

\* the peak of a filtered frame whose first row is neither labelled 0 nor
\* the row of the maximum
C23_Witness ==
    /\ IsCall("get_peak_info")
    /\ lastCall.again
    /\ Len(lastCall.input) >= 2
    /\ lastCall.input[1].idx > 0
    /\ lastCall.args[1] = "Kasus_Baru"
    /\ lastCall.ret.value > lastCall.input[1].Kasus_Baru

(***************************************************************************)
(* Properties of the province simulation and the fallback series           *)
(***************************************************************************)
\* C24: every row of generate_province_simulation has
\* Aktif = max(0, Kasus - Kematian - Sembuh), so Aktif is never negative,
\* also when deaths and recoveries together exceed the cases.
C24_AktifClamped ==
    prov.status = "returned" =>
        \A i \in 1..Len(prov.df) :
            LET r == prov.df[i]
                rest == r.Kasus - r.Kematian - r.Sembuh
            IN  /\ r.Aktif = IF rest > 0 THEN rest ELSE 0
                /\ r.Aktif >= 0

\* a province whose drawn deaths and recoveries exceed its cases
C24_Witness ==
    /\ prov.status = "returned"
    /\ \E i \in 1..Len(prov.df) :
          /\ prov.df[i].Kasus - prov.df[i].Kematian - prov.df[i].Sembuh < 0
          /\ prov.df[i].Aktif = 0

\* the position of a province in PROVINSI_POPULASI
ProvinceIndex(name) ==
    CHOOSE i \in 1..Len(PROVINSI_POPULASI) :
        PROVINSI_POPULASI[i].Provinsi = name

\* int(total_cases * share * multiplier) of a province, the multiplier in
\* thousandths
ShareOf(total_cases, i, multiplier) ==
    MulDiv(total_cases, PROVINSI_POPULASI[i].pop * multiplier,
           total_pop * 1000)

\* the multiplier drawn for a province after np.random.seed(42), in
\* thousandths of [0.5, 1.5)
DrawnMultiplier(i) == 500 + UniformMilli(np_random_seed(rng, 42), 3 * i - 2)

\* the row's count is the share with the drawn multiplier
PlainRow(r) ==
    LET i == ProvinceIndex(r.Provinsi)
    IN  /\ DrawnMultiplier(i) >= 500 /\ DrawnMultiplier(i) < 1500
        /\ r.Kasus = ShareOf(prov.total_cases, i, DrawnMultiplier(i))

\* the row's count is the share with 1.3 times the drawn multiplier, and
\* not the share with the drawn multiplier alone
BoostedRow(r) ==
    LET i == ProvinceIndex(r.Provinsi)
    IN  /\ r.Kasus = MulDiv(prov.total_cases,
                            PROVINSI_POPULASI[i].pop * DrawnMultiplier(i) * 13,
                            total_pop * 10000)
        /\ r.Kasus # ShareOf(prov.total_cases, i, DrawnMultiplier(i))

BoostedRows == {i \in 1..Len(prov.df) : BoostedRow(prov.df[i])}

\* a simulation of a total large enough for the boost to show in a count
Simulated == prov.status = "returned" /\ prov.total_cases >= 1000

\* C25 as stated: the multiplier 1.3 is applied to exactly two provinces;
\* every other province's count is total_cases x population share x a
\* multiplier from [0.5, 1.5).
C25_TwoProvincesBoosted ==
    Simulated =>
        /\ Cardinality(BoostedRows) = 2
        /\ \A i \in 1..Len(prov.df) :
              ~BoostedRow(prov.df[i]) => PlainRow(prov.df[i])

\* the provinces whose name contains "Jakarta" or "Jawa"
JakartaAndJawa == {"DKI Jakarta", "Jawa Barat", "Jawa Tengah", "Jawa Timur"}

\* C25 (amended): the multiplier 1.3 is applied to exactly the four
\* provinces whose name contains "Jakarta" or "Jawa"; every other
\* province's count is total_cases x population share x a multiplier from
\* [0.5, 1.5).
C25_JakartaAndJawaBoosted ==
    Simulated =>
        /\ {prov.df[i].Provinsi : i \in BoostedRows} = JakartaAndJawa
        /\ \A i \in 1..Len(prov.df) :
              ~BoostedRow(prov.df[i]) => PlainRow(prov.df[i])

\* a simulation of 6,800,000 cases in which Jawa Barat carries the boost
C25_Witness ==
    /\ prov.status = "returned"
    /\ prov.total_cases = 6800000
    /\ \E i \in BoostedRows : prov.df[i].Provinsi = "Jawa Barat"

\* the fallback series, as _get_sample_historical_df returned it
FallbackSeries == hist.status = "returned" /\ hist.src = "sample"

\* C26: in the fallback series every row has Kematian = int(Kasus * 0.025)
\* and Sembuh = int(Kasus * 0.85); every daily count is at least 1, so the
\* cumulative cases increase strictly and the cumulative deaths and
\* recoveries never decrease.
C26_FallbackRatios ==
    FallbackSeries =>
        /\ \A i \in 1..Len(hist.df) :
              LET r == hist.df[i]
              IN  /\ 1000 * r.Kematian <= 25 * r.Kasus
                  /\ 25 * r.Kasus < 1000 * (r.Kematian + 1)
                  /\ 100 * r.Sembuh <= 85 * r.Kasus
                  /\ 85 * r.Kasus < 100 * (r.Sembuh + 1)
                  /\ r.Kasus_Baru >= 1
        /\ \A i \in 2..Len(hist.df) :
              /\ hist.df[i].Kasus > hist.df[i - 1].Kasus
              /\ hist.df[i].Kematian >= hist.df[i - 1].Kematian
              /\ hist.df[i].Sembuh >= hist.df[i - 1].Sembuh

\* the 365-row fallback series, with a day whose count came out as 1 and
\* cumulative counts that are no multiples of the divisors
C26_Witness ==
    /\ FallbackSeries
    /\ Len(hist.df) = 365
    /\ \E i \in 2..365 :
          /\ hist.df[i].Kasus_Baru = 1
          /\ hist.df[i].Kematian = hist.df[i - 1].Kematian
    /\ \E i \in 1..365 :
          /\ 25 * hist.df[i].Kasus > 1000 * hist.df[i].Kematian
          /\ 85 * hist.df[i].Kasus > 100 * hist.df[i].Sembuh + 50

(***************************************************************************)
(* Properties of the navigation                                            *)
(***************************************************************************)
\* a script run that got past the hydration from the URL
RanMain == navTrace.ran /\ ~navTrace.raised

\* a pending request that main applies: a string that, stripped, is a page
ValidPending(v) == v.has /\ v.isstr /\ v.v # "" /\ v.v \in all_pages

\* C27 as stated: after request_navigation(p) for a valid page p and a
\* rerun, main makes p the page it renders, whatever page and group were
\* active before, and the request is consumed.
C27_RequestedPageRendered ==
    (RanMain /\ ValidPending(navTrace.hydrated.pending)) =>
        /\ navTrace.after.app_page = Str(navTrace.hydrated.pending.v)
        /\ navTrace.after.pending = NoVal

\* C28: when main routes, nav_group is one of the groups and app_page one
\* of the pages of that group, whatever the session held before, so the
\* routing has exactly one renderer for the page.
C28_RoutingStateValid ==
    RanMain =>
        /\ InOptions(navTrace.after.nav_group, Groups)
        /\ InOptions(navTrace.after.app_page,
                     pages_by_group[navTrace.after.nav_group.v])
        /\ rendered.status = "rendered" =>
              /\ rendered.page = navTrace.after.app_page.v
              /\ rendered.page \in all_pages

\* a run that started with a page name injected from the URL that names no
\* page and with a nav_group that is not a string
C28_Witness ==
    /\ RanMain
    /\ ~navTrace.before.app_page.has
    /\ navTrace.hydrated.app_page = Str("Halaman Lain")
    /\ navTrace.before.nav_group = NotStr
    /\ rendered.status = "rendered"

\* C29: a pending request that is not a string, is blank or names no page
\* leaves app_page as it is when it is applied, and every run of main
\* removes the pending key.
C29_InvalidPendingDropped ==
    navTrace.ran =>
        /\ ~ValidPending(navTrace.hydrated.pending) =>
              navTrace.applied.app_page = navTrace.hydrated.app_page
        /\ ~navTrace.raised => navTrace.applied.pending = NoVal
        /\ navTrace.after.pending = NoVal

\* a run that found a request naming no page
C29_Witness ==
    /\ RanMain
    /\ navTrace.hydrated.pending = Str("Halaman Lain")
    /\ navTrace.applied.app_page = navTrace.hydrated.app_page
    /\ navTrace.applied.app_page.has

\* C30: sync_state_from_url changes nothing once the sentinel is set; the
\* first call sets the sentinel and writes app_page only when the payload
\* holds it and the session does not; without a decodable token only the
\* sentinel changes.
C30_HydratedOnce ==
    navTrace.ran =>
        LET b == navTrace.before
            h == navTrace.hydrated
        IN  /\ b.synced => h = b
            /\ ~b.synced =>
                  /\ h.synced
                  /\ h.nav_group = b.nav_group
                  /\ h.pending = b.pending
                  /\ b.app_page.has => h.app_page = b.app_page
                  /\ url.kind \in {"none", "garbage"} =>
                        h.app_page = b.app_page
                  /\ h.app_page # b.app_page =>
                        /\ url.kind = "object"
                        /\ url.app_page.has
                        /\ h.app_page = url.app_page

\* a first call whose payload names a page while the session holds another
C30_Witness ==
    /\ navTrace.ran
    /\ ~navTrace.before.synced
    /\ navTrace.before.app_page.has
    /\ url.kind = "object"
    /\ url.app_page.has
    /\ url.app_page # navTrace.before.app_page
    /\ navTrace.hydrated.app_page = navTrace.before.app_page

====
